---- MODULE Spec2Model ----
(***************************************************************************)
(* A model of serde_cadence: the Cadence-JSON value model, the structural  *)
(* transcoder (src/src/conversion.rs), the typed bindings                  *)
(* (src/src/impls.rs), the derived record bindings                         *)
(* (src/cadence_json_derive/src/lib.rs) and the boundary functions         *)
(* (src/src/lib.rs).                                                        *)
(*                                                                         *)
(* The library is a set of pure functions.  A behaviour of the model is    *)
(* one call: the initial state holds the function called and its           *)
(* arguments (call), and the action of that function stores what it        *)
(* returns (ret).  For an encoder a second step hands an Ok result to the  *)
(* matching decoder and stores what that returns (back).                   *)
(*                                                                         *)
(* Strings are TLA+ strings (read with Head/Tail/Len, built with \o).      *)
(* A native integer is a sign and a sequence of decimal digits, so every   *)
(* width up to 64 bits is exact.                                           *)
(***************************************************************************)
EXTENDS Integers, Sequences, FiniteSets, TLC

VARIABLES pc, call, ret, back

vars == <<pc, call, ret, back>>

(***************************************************************************)
(* Result<T>: Ok(v) or one of the variants of Error (lib.rs 464-470).      *)
(***************************************************************************)
Ok(v) == [ok |-> TRUE, v |-> v]

Err(kind, msg) == [ok |-> FALSE, err |-> kind, msg |-> msg]

\* Error::TypeMismatch { expected, got }; got is the Debug rendering of the
\* value, kept here as the value itself.
TypeMismatch(expected, got) == [ok |-> FALSE, err |-> "TypeMismatch", expected |-> expected, got |-> got]

\* A panic (unreachable!(), an index out of bounds): the call does not
\* return, the thread unwinds with msg.  It is no variant of Error.
Panic(msg) == [ok |-> FALSE, err |-> "panic", msg |-> msg]

\* An inner match of an arm shared by several kinds: the variant listed
\* under name, and _ => unreachable!() for a name that is not listed
\* (conversion.rs 113-135, 148-152, 260-267, 354-376, 436-443)
InnerMatch(name, listed) ==
    IF name \in listed THEN Ok(name) ELSE Panic("internal error: entered unreachable code")

\* value[i] of a Vec, i counted from 0 (impls.rs 328-329)
Index(value, i) ==
    IF i + 1 \in DOMAIN value THEN Ok(value[i + 1])
    ELSE Panic("index out of bounds: the len is " \o ToString(Len(value))
               \o " but the index is " \o ToString(i))

(***************************************************************************)
(* serde_json::Value.  An object is a function from member names to        *)
(* values; its members are visited in ascending name order (serde_json's   *)
(* default map is a BTreeMap).                                             *)
(***************************************************************************)
JNull == [j |-> "null"]

JBool(b) == [j |-> "bool", b |-> b]

JNum(n) == [j |-> "num", n |-> n]

JStr(s) == [j |-> "str", s |-> s]

JArr(a) == [j |-> "arr", a |-> a]

JObj(o) == [j |-> "obj", o |-> o]

\* serde_json::Map::new()
EmptyMap == <<>>

\* obj.get(name) is Some(_)
Has(obj, name) == name \in DOMAIN obj

\* map.insert(name, v): a later insert of the same name replaces the member
Insert(obj, name, v) == [n \in (DOMAIN obj) \cup {name} |-> IF n = name THEN v ELSE obj[n]]

IsObj(v) == v.j = "obj"

IsStr(v) == v.j = "str"

IsArr(v) == v.j = "arr"

IsBool(v) == v.j = "bool"

IsNull(v) == v.j = "null"

(***************************************************************************)
(* Byte order of strings (Ord for String), over the characters in use.     *)
(***************************************************************************)
CharOrder == "+-0123456789ABCDEFGHIJKLMNOPQRSTUVWXYZ_abcdefghijklmnopqrstuvwxyz"

\* The position of c in order, 0 when it is not there
CharRankIn(c, order) ==
    LET at == {i \in 1..Len(order) : SubSeq(order, i, i) = c}
    IN IF at = {} THEN 0 ELSE CHOOSE i \in at : TRUE

CharRank(c) == CharRankIn(c, CharOrder)

RECURSIVE StrLess(_, _)
StrLess(a, b) ==
    IF b = "" THEN FALSE
    ELSE IF a = "" THEN TRUE
    ELSE IF Head(a) = Head(b) THEN StrLess(Tail(a), Tail(b))
    ELSE CharRank(Head(a)) < CharRank(Head(b))

\* The names of a set in ascending order
RECURSIVE SortedNames(_)
SortedNames(S) ==
    IF S = {} THEN <<>>
    ELSE LET m == CHOOSE x \in S : \A y \in S \ {x} : StrLess(x, y)
         IN <<m>> \o SortedNames(S \ {m})

(***************************************************************************)
(* Native integers.  A value is [neg, mag]: mag is the sequence of decimal *)
(* digits of the magnitude, most significant first and without leading     *)
(* zeros; zero is [neg |-> FALSE, mag |-> <<>>].                           *)
(***************************************************************************)
DigitChars == "0123456789"

IsDigit(c) == CharRankIn(c, DigitChars) > 0

\* char::to_digit(10)
DigitValue(c) == CharRankIn(c, DigitChars) - 1

DigitChar(d) == SubSeq(DigitChars, d + 1, d + 1)

Num(neg, mag) == [neg |-> neg /\ mag # <<>>, mag |-> mag]

\* a < b on magnitudes
MagLess(a, b) ==
    \/ Len(a) < Len(b)
    \/ /\ Len(a) = Len(b)
       /\ \E i \in 1..Len(a) : a[i] < b[i] /\ \A h \in 1..(i - 1) : a[h] = b[h]

RECURSIVE DoubleFrom(_, _, _)
DoubleFrom(mag, i, carry) ==
    IF i = 0 THEN (IF carry = 0 THEN <<>> ELSE <<carry>>)
    ELSE LET d == 2 * mag[i] + carry IN DoubleFrom(mag, i - 1, d \div 10) \o <<d % 10>>

\* mag * 2^n
RECURSIVE Shl(_, _)
Shl(mag, n) == IF n = 0 THEN mag ELSE Shl(DoubleFrom(mag, Len(mag), 0), n - 1)

\* 2^7, 2^8, 2^15, 2^16, 2^31, 2^32, 2^63 and 2^64 as magnitudes
Pow2_7 == Shl(<<1>>, 7)

Pow2_8 == Shl(Pow2_7, 1)

Pow2_15 == Shl(Pow2_8, 7)

Pow2_16 == Shl(Pow2_15, 1)

Pow2_31 == Shl(Pow2_16, 15)

Pow2_32 == Shl(Pow2_31, 1)

Pow2_63 == Shl(Pow2_32, 31)

Pow2_64 == Shl(Pow2_63, 1)

\* The fixed-width targets of impl_int_to_cadence! (impls.rs 96-103)
IntTypes == {
    [name |-> "u8",  signed |-> FALSE, bits |-> 8,  variant |-> "UInt8"],
    [name |-> "u16", signed |-> FALSE, bits |-> 16, variant |-> "UInt16"],
    [name |-> "u32", signed |-> FALSE, bits |-> 32, variant |-> "UInt32"],
    [name |-> "u64", signed |-> FALSE, bits |-> 64, variant |-> "UInt64"],
    [name |-> "i8",  signed |-> TRUE,  bits |-> 8,  variant |-> "Int8"],
    [name |-> "i16", signed |-> TRUE,  bits |-> 16, variant |-> "Int16"],
    [name |-> "i32", signed |-> TRUE,  bits |-> 32, variant |-> "Int32"],
    [name |-> "i64", signed |-> TRUE,  bits |-> 64, variant |-> "Int64"] }

IntType(name) == CHOOSE t \in IntTypes : t.name = name

\* The first magnitude a type of this signedness and width cannot hold:
\* 2^bits unsigned, 2^(bits-1) signed
Limit(signed, bits) ==
    CASE bits = 8 -> IF signed THEN Pow2_7 ELSE Pow2_8
      [] bits = 16 -> IF signed THEN Pow2_15 ELSE Pow2_16
      [] bits = 32 -> IF signed THEN Pow2_31 ELSE Pow2_32
      [] bits = 64 -> IF signed THEN Pow2_63 ELSE Pow2_64

\* A range check that lets every number through: arithmetic without
\* checked_mul and checked_add
Unchecked(n, signed, bits) == TRUE

\* Whether n is a value of the type: 0..2^bits-1, or -2^(bits-1)..2^(bits-1)-1
Fits(n, signed, bits) ==
    IF n.neg THEN signed /\ ~MagLess(Limit(signed, bits), n.mag)
    ELSE MagLess(n.mag, Limit(signed, bits))

\* result * 10 + digit on magnitudes
Mul10Add(mag, d) == IF mag = <<>> /\ d = 0 THEN <<>> ELSE Append(mag, d)

\* The digit loop of from_str_radix: checked_mul and checked_add (or
\* checked_sub for a negative number) on every digit
RECURSIVE ParseDigits(_, _, _, _, _)
ParseDigits(digits, neg, mag, signed, bits) ==
    IF digits = "" THEN [ok |-> TRUE, v |-> Num(neg, mag)]
    ELSE IF ~IsDigit(Head(digits)) THEN [ok |-> FALSE, kind |-> "InvalidDigit"]
    ELSE LET next == Mul10Add(mag, DigitValue(Head(digits))) IN
         IF ~Fits(Num(neg, next), signed, bits)
         THEN [ok |-> FALSE, kind |-> IF neg THEN "NegOverflow" ELSE "PosOverflow"]
         ELSE ParseDigits(Tail(digits), neg, next, signed, bits)

\* A parse that takes no sign
ParseIntUnsigned(src, signed, bits) ==
    IF src = "" THEN [ok |-> FALSE, kind |-> "Empty"]
    ELSE ParseDigits(src, FALSE, <<>>, signed, bits)

\* str::parse::<$t>() (impls.rs 77, 80, 83): core's from_str_radix(src, 10)
ParseInt(src, signed, bits) ==
    IF src = "" THEN [ok |-> FALSE, kind |-> "Empty"]
    ELSE IF src = "+" \/ src = "-" THEN [ok |-> FALSE, kind |-> "InvalidDigit"]
    ELSE IF Head(src) = "+" THEN ParseDigits(Tail(src), FALSE, <<>>, signed, bits)
    ELSE IF Head(src) = "-" /\ signed THEN ParseDigits(Tail(src), TRUE, <<>>, signed, bits)
    ELSE ParseDigits(src, FALSE, <<>>, signed, bits)

\* Display for ParseIntError
ParseIntErrorText(kind) ==
    CASE kind = "Empty" -> "cannot parse integer from empty string"
      [] kind = "InvalidDigit" -> "invalid digit found in string"
      [] kind = "PosOverflow" -> "number too large to fit in target type"
      [] kind = "NegOverflow" -> "number too small to fit in target type"

RECURSIVE MagText(_)
MagText(mag) == IF mag = <<>> THEN "" ELSE DigitChar(Head(mag)) \o MagText(Tail(mag))

\* The digits of n without its sign
MagnitudeToString(n) == IF n.mag = <<>> THEN "0" ELSE MagText(n.mag)

\* ToString for the integer types (impls.rs 69)
IntToString(n) ==
    IF n.mag = <<>> THEN "0"
    ELSE (IF n.neg THEN "-" ELSE "") \o MagText(n.mag)

(***************************************************************************)
(* Native floats (f32, f64).  A finite float is [neg, mag, pow]: the       *)
(* decimal digits mag without leading or trailing zeros, times 10^pow;     *)
(* zero has mag <<>> and pow 0 and keeps its sign.  The others are         *)
(* [neg, special] with special "inf" or "nan".  The decimal stands for the *)
(* float nearest to it: decimals of so few digits as the ones in use have  *)
(* distinct nearest floats, in both widths.                                *)
(***************************************************************************)
UpperChars == "ABCDEFGHIJKLMNOPQRSTUVWXYZ"

LowerChars == "abcdefghijklmnopqrstuvwxyz"

\* u8::to_ascii_lowercase
ToAsciiLowercase(c) ==
    IF CharRankIn(c, UpperChars) > 0
    THEN SubSeq(LowerChars, CharRankIn(c, UpperChars), CharRankIn(c, UpperChars))
    ELSE c

\* str::eq_ignore_ascii_case
EqIgnoreAsciiCase(text, word) ==
    /\ Len(text) = Len(word)
    /\ \A i \in 1..Len(text) : ToAsciiLowercase(SubSeq(text, i, i)) = SubSeq(word, i, i)

\* The number of decimal digits text begins with
DigitRun(text) ==
    LET stops == {i \in 1..Len(text) : ~IsDigit(SubSeq(text, i, i))}
    IN IF stops = {} THEN Len(text) ELSE (CHOOSE i \in stops : \A h \in stops : i <= h) - 1

\* The number a short digit string denotes
RECURSIVE DigitsValue(_, _)
DigitsValue(text, acc) ==
    IF text = "" THEN acc ELSE DigitsValue(Tail(text), 10 * acc + DigitValue(Head(text)))

\* The digits of text as a sequence of numbers
DigitSeq(text) == [i \in 1..Len(text) |-> DigitValue(SubSeq(text, i, i))]

\* digits * 10^pow without leading or trailing zeros
Finite(neg, digits, pow) ==
    LET nonzero == {i \in DOMAIN digits : digits[i] # 0} IN
    IF nonzero = {} THEN [neg |-> neg, mag |-> <<>>, pow |-> 0]
    ELSE LET first == CHOOSE i \in nonzero : \A h \in nonzero : i <= h
             last == CHOOSE i \in nonzero : \A h \in nonzero : i >= h
         IN [neg |-> neg, mag |-> SubSeq(digits, first, last), pow |-> pow + (Len(digits) - last)]

\* parse_number and parse_inf_nan of core::num::dec2flt on the text after
\* the sign: digits, an optional point and digits (one digit at least), an
\* optional exponent of an optional sign and digits; or inf, infinity, nan.
\* The text is read in three steps: the integer digits, the fraction, the
\* exponent.
ParseExponent(s, neg, digits, n_digits, n_frac, after_frac) ==
    LET exponent == after_frac # "" /\ Head(after_frac) \in {"e", "E"}
        after_e == IF exponent THEN Tail(after_frac) ELSE ""
        exp_neg == after_e # "" /\ Head(after_e) = "-"
        exp_digits == IF after_e # "" /\ Head(after_e) \in {"+", "-"} THEN Tail(after_e) ELSE after_e
        exp_value == IF exp_neg THEN 0 - DigitsValue(exp_digits, 0) ELSE DigitsValue(exp_digits, 0)
    IN IF EqIgnoreAsciiCase(s, "nan") THEN [ok |-> TRUE, v |-> [neg |-> neg, special |-> "nan"]]
       ELSE IF EqIgnoreAsciiCase(s, "inf") \/ EqIgnoreAsciiCase(s, "infinity")
            THEN [ok |-> TRUE, v |-> [neg |-> neg, special |-> "inf"]]
       ELSE IF n_digits = 0 THEN [ok |-> FALSE, kind |-> "Invalid"]
       ELSE IF ~exponent
            THEN IF after_frac = "" THEN [ok |-> TRUE, v |-> Finite(neg, digits, 0 - n_frac)]
                 ELSE [ok |-> FALSE, kind |-> "Invalid"]
       ELSE IF exp_digits = "" \/ DigitRun(exp_digits) # Len(exp_digits) THEN [ok |-> FALSE, kind |-> "Invalid"]
       ELSE [ok |-> TRUE, v |-> Finite(neg, digits, exp_value - n_frac)]

ParseFraction(s, neg, n_int, after_int, point, n_frac) ==
    ParseExponent(s, neg,
                  DigitSeq(SubSeq(s, 1, n_int) \o (IF point THEN SubSeq(after_int, 2, n_frac + 1) ELSE "")),
                  n_int + n_frac, n_frac,
                  IF point THEN SubSeq(after_int, n_frac + 2, Len(after_int)) ELSE after_int)

ParsePoint(s, neg, n_int, after_int, point) ==
    ParseFraction(s, neg, n_int, after_int, point, IF point THEN DigitRun(Tail(after_int)) ELSE 0)

ParseAfterInt(s, neg, n_int, after_int) ==
    ParsePoint(s, neg, n_int, after_int, after_int # "" /\ Head(after_int) = ".")

ParseIntegerDigits(s, neg, n_int) == ParseAfterInt(s, neg, n_int, SubSeq(s, n_int + 1, Len(s)))

ParseUnsignedFloat(s, neg) == ParseIntegerDigits(s, neg, DigitRun(s))

\* str::parse::<f32>() and str::parse::<f64>() (impls.rs 126, 129, 143, 146)
ParseFloat(src) ==
    IF src = "" THEN [ok |-> FALSE, kind |-> "Empty"]
    ELSE IF Head(src) \in {"+", "-"}
         THEN IF Tail(src) = "" THEN [ok |-> FALSE, kind |-> "Invalid"]
              ELSE ParseUnsignedFloat(Tail(src), Head(src) = "-")
         ELSE ParseUnsignedFloat(src, FALSE)

\* Display for ParseFloatError
ParseFloatErrorText(kind) ==
    IF kind = "Empty" THEN "cannot parse float from empty string" ELSE "invalid float literal"

\* A run of n zeros
RECURSIVE Zeros(_)
Zeros(n) == IF n <= 0 THEN "" ELSE "0" \o Zeros(n - 1)

\* ToString for f32 and f64 (impls.rs 109, 117): the shortest digits that
\* read back as the same float, without an exponent
FloatToString(x) ==
    IF "special" \in DOMAIN x
    THEN IF x.special = "nan" THEN "NaN" ELSE (IF x.neg THEN "-inf" ELSE "inf")
    ELSE (IF x.neg THEN "-" ELSE "") \o
         (IF x.mag = <<>> THEN "0"
          ELSE IF x.pow >= 0 THEN MagText(x.mag) \o Zeros(x.pow)
          ELSE IF Len(x.mag) > 0 - x.pow
               THEN MagText(SubSeq(x.mag, 1, Len(x.mag) + x.pow)) \o "."
                    \o MagText(SubSeq(x.mag, Len(x.mag) + x.pow + 1, Len(x.mag)))
               ELSE "0." \o Zeros((0 - x.pow) - Len(x.mag)) \o MagText(x.mag))


(***************************************************************************)
(* CadenceValue (lib.rs 12-210).                                           *)
(***************************************************************************)
IntKinds == {"Int", "Int8", "Int16", "Int32", "Int64", "Int128", "Int256",
             "UInt", "UInt8", "UInt16", "UInt32", "UInt64", "UInt128", "UInt256",
             "Word8", "Word16", "Word32", "Word64", "Word128", "Word256"}

FixKinds == {"Fix64", "UFix64"}

CompositeKinds == {"Struct", "Resource", "Event", "Contract", "Enum"}

DescriptorKinds == {"Path", "Type", "InclusiveRange", "Capability", "Function"}

\* The kinds whose payload is one string
TextKinds == {"String", "Address"} \cup IntKinds \cup FixKinds

\* Every discriminator of the enum
AllKinds == {"Void", "Optional", "Bool", "Array", "Dictionary"}
            \cup TextKinds \cup CompositeKinds \cup DescriptorKinds

Void == [k |-> "Void"]

\* Optional { value: Option<Box<CadenceValue>> }: o is <<>> (None) or <<v>>
Optional(o) == [k |-> "Optional", o |-> o]

CBool(b) == [k |-> "Bool", b |-> b]

\* String, Address, the integer kinds and the fixed-point kinds: { value: String }
Text(kind, s) == [k |-> kind, s |-> s]

Array(a) == [k |-> "Array", a |-> a]

DictionaryEntry(key, value) == [key |-> key, value |-> value]

Dictionary(d) == [k |-> "Dictionary", d |-> d]

CompositeField(name, value) == [name |-> name, value |-> value]

\* Struct/Resource/Event/Contract/Enum { value: CompositeValue { id, fields } }
Composite(kind, id, fields) == [k |-> kind, id |-> id, fields |-> fields]

\* Path/Type/InclusiveRange/Capability/Function { value: ... }
Descriptor(kind, p) == [k |-> kind, p |-> p]

(***************************************************************************)
(* The structural transcoder, JSON tree -> CadenceValue                    *)
(* (conversion.rs 8-281).                                                  *)
(***************************************************************************)
RECURSIVE value_to_cadence_value(_), parse_structured_cadence_value(_, _),
          DecodeItems(_, _), DecodeMembers(_, _), DecodeEntries(_, _), DecodeFields(_, _)

\* for item in arr { cadence_values.push(value_to_cadence_value(item)?) },
\* from position i on (conversion.rs 25-27, 165-167)
DecodeItems(arr, i) ==
    IF i > Len(arr) THEN Ok(<<>>)
    ELSE LET r == value_to_cadence_value(arr[i]) IN
         IF ~r.ok THEN r
         ELSE LET rest == DecodeItems(arr, i + 1) IN
              IF ~rest.ok THEN rest ELSE Ok(<<r.v>> \o rest.v)

\* The implicit Dictionary: for (key, value) in obj, in the object's member
\* order (conversion.rs 40-48); names is what is left to visit
DecodeMembers(obj, names) ==
    IF names = <<>> THEN Ok(<<>>)
    ELSE LET r == value_to_cadence_value(obj[Head(names)]) IN
         IF ~r.ok THEN r
         ELSE LET rest == DecodeMembers(obj, Tail(names)) IN
              IF ~rest.ok THEN rest
              ELSE Ok(<<DictionaryEntry(Text("String", Head(names)), r.v)>> \o rest.v)

\* The entries of a "Dictionary" payload (conversion.rs 181-199)
DecodeEntries(arr, i) ==
    IF i > Len(arr) THEN Ok(<<>>)
    ELSE IF ~IsObj(arr[i]) THEN Err("InvalidCadenceValue", "Dictionary entry must be an object")
    ELSE IF ~Has(arr[i].o, "key") THEN Err("InvalidCadenceValue", "Dictionary entry missing key")
    ELSE IF ~Has(arr[i].o, "value") THEN Err("InvalidCadenceValue", "Dictionary entry missing value")
    ELSE LET key == value_to_cadence_value(arr[i].o["key"]) IN
         IF ~key.ok THEN key
         ELSE LET value == value_to_cadence_value(arr[i].o["value"]) IN
              IF ~value.ok THEN value
              ELSE LET rest == DecodeEntries(arr, i + 1) IN
                   IF ~rest.ok THEN rest
                   ELSE Ok(<<DictionaryEntry(key.v, value.v)>> \o rest.v)

\* The fields of a composite payload (conversion.rs 229-252)
DecodeFields(arr, i) ==
    IF i > Len(arr) THEN Ok(<<>>)
    ELSE IF ~IsObj(arr[i]) THEN Err("InvalidCadenceValue", "Field must be an object")
    ELSE IF ~Has(arr[i].o, "name") THEN Err("InvalidCadenceValue", "Field missing name")
    ELSE IF ~IsStr(arr[i].o["name"]) THEN Err("InvalidCadenceValue", "Field name must be a string")
    ELSE IF ~Has(arr[i].o, "value") THEN Err("InvalidCadenceValue", "Field missing value")
    ELSE LET value == value_to_cadence_value(arr[i].o["value"]) IN
         IF ~value.ok THEN value
         ELSE LET rest == DecodeFields(arr, i + 1) IN
              IF ~rest.ok THEN rest
              ELSE Ok(<<CompositeField(arr[i].o["name"].s, value.v)>> \o rest.v)

\* The scalar arms: the payload must be an object whose "value" member has
\* the kind's JSON type (conversion.rs 71-159)
ParseScalar(type_name, value, wanted, what) ==
    IF ~IsObj(value) THEN Err("InvalidCadenceValue", type_name \o " value must be an object")
    ELSE IF Has(value.o, "value") /\ value.o["value"].j = wanted
         THEN IF wanted = "bool" THEN Ok(CBool(value.o["value"].b))
              ELSE IF type_name \in {"String", "Address"} THEN Ok(Text(type_name, value.o["value"].s))
              ELSE LET variant ==
                        InnerMatch(type_name,
                                   IF type_name \in FixKinds THEN {"Fix64", "UFix64"}
                                   ELSE {"Int", "Int8", "Int16", "Int32", "Int64", "Int128", "Int256",
                                         "UInt", "UInt8", "UInt16", "UInt32", "UInt64", "UInt128", "UInt256",
                                         "Word8", "Word16", "Word32", "Word64", "Word128", "Word256"}) IN
                   IF ~variant.ok THEN variant ELSE Ok(Text(variant.v, value.o["value"].s))
         ELSE Err("InvalidCadenceValue", type_name \o " value must be " \o what)

\* "Struct" | "Resource" | "Event" | "Contract" | "Enum" (conversion.rs 210-274)
ParseComposite(type_name, value) ==
    IF ~IsObj(value) THEN Err("InvalidCadenceValue", type_name \o " value must be an object")
    ELSE IF ~(Has(value.o, "value") /\ IsObj(value.o["value"]))
         THEN Err("InvalidCadenceValue", type_name \o " value must be an object")
    ELSE LET composite_obj == value.o["value"].o IN
         IF ~Has(composite_obj, "id") THEN Err("InvalidCadenceValue", type_name \o " value missing id")
         ELSE IF ~IsStr(composite_obj["id"]) THEN Err("InvalidCadenceValue", type_name \o " id must be a string")
         ELSE IF ~Has(composite_obj, "fields") THEN Err("InvalidCadenceValue", type_name \o " value missing fields")
         ELSE IF ~IsArr(composite_obj["fields"]) THEN Err("InvalidCadenceValue", "Fields must be an array")
         ELSE LET fields == DecodeFields(composite_obj["fields"].a, 1) IN
              IF ~fields.ok THEN fields
              ELSE LET variant == InnerMatch(type_name, {"Struct", "Resource", "Event", "Contract", "Enum"}) IN
                   IF ~variant.ok THEN variant
                   ELSE Ok(Composite(variant.v, composite_obj["id"].s, fields.v))

\* fn parse_structured_cadence_value(type_name, value); value is the
\* envelope's "value" member (conversion.rs 56-281)
parse_structured_cadence_value(type_name, value) ==
    CASE type_name = "Void" -> Ok(Void)
      [] type_name = "Optional" ->
            IF IsNull(value) THEN Ok(Optional(<<>>))
            ELSE LET inner_value == value_to_cadence_value(value) IN
                 IF ~inner_value.ok THEN inner_value ELSE Ok(Optional(<<inner_value.v>>))
      [] type_name = "Bool" -> ParseScalar(type_name, value, "bool", "a boolean")
      [] type_name \in TextKinds -> ParseScalar(type_name, value, "str", "a string")
      [] type_name = "Array" ->
            IF ~IsObj(value) THEN Err("InvalidCadenceValue", "Array value must be an object")
            ELSE IF Has(value.o, "value") /\ IsArr(value.o["value"])
                 THEN LET items == DecodeItems(value.o["value"].a, 1) IN
                      IF ~items.ok THEN items ELSE Ok(Array(items.v))
                 ELSE Err("InvalidCadenceValue", "Array value must be an array")
      [] type_name = "Dictionary" ->
            IF ~IsObj(value) THEN Err("InvalidCadenceValue", "Dictionary value must be an object")
            ELSE IF Has(value.o, "value") /\ IsArr(value.o["value"])
                 THEN LET entries == DecodeEntries(value.o["value"].a, 1) IN
                      IF ~entries.ok THEN entries ELSE Ok(Dictionary(entries.v))
                 ELSE Err("InvalidCadenceValue", "Dictionary value must be an array")
      [] type_name \in CompositeKinds -> ParseComposite(type_name, value)
      [] OTHER -> Err("UnsupportedType", type_name)

\* An inference that knows one integer kind
NumberToValueSigned(n) ==
    IF "f" \in DOMAIN n THEN Text("Fix64", n.f) ELSE Text("Int", IntToString(n))

\* serde_json::Number (conversion.rs 12-21): an integer [neg, mag] within
\* i64 or u64, or a number with a fraction or exponent, [f], kept as the text
\* Number::to_string gives.  is_i64 holds of every integer up to i64::MAX,
\* is_u64 of the others.
NumberToValue(n) ==
    IF "f" \in DOMAIN n THEN Text("Fix64", n.f)
    ELSE IF Fits(n, TRUE, 64) THEN Text("Int", IntToString(n))
    ELSE Text("UInt", IntToString(n))

\* pub fn value_to_cadence_value(value: &Value) (conversion.rs 8-53)
value_to_cadence_value(value) ==
    CASE value.j = "null" -> Ok(Optional(<<>>))
      [] value.j = "bool" -> Ok(CBool(value.b))
      [] value.j = "num" -> Ok(NumberToValue(value.n))
      [] value.j = "str" -> Ok(Text("String", value.s))
      [] value.j = "arr" ->
            LET items == DecodeItems(value.a, 1) IN
            IF ~items.ok THEN items ELSE Ok(Array(items.v))
      [] value.j = "obj" ->
            IF Has(value.o, "type") /\ IsStr(value.o["type"]) /\ Has(value.o, "value")
            THEN parse_structured_cadence_value(value.o["type"].s, value.o["value"])
            ELSE LET entries == DecodeMembers(value.o, SortedNames(DOMAIN value.o)) IN
                 IF ~entries.ok THEN entries ELSE Ok(Dictionary(entries.v))

(***************************************************************************)
(* The structural transcoder, CadenceValue -> JSON tree                    *)
(* (conversion.rs 284-468).                                                *)
(***************************************************************************)
\* An object that is given its "type" and never its "value"
TypeOnly(type_name, payload) == JObj(Insert(EmptyMap, "type", JStr(type_name)))

\* obj.insert("type", ...); obj.insert("value", ...)
Envelope(type_name, payload) ==
    JObj(Insert(Insert(EmptyMap, "type", JStr(type_name)), "value", payload))

\* The variants named by the inner match of the integer arm, without the last
IntVariantNamesButLast ==
    {"Int", "Int8", "Int16", "Int32", "Int64", "Int128", "Int256",
     "UInt", "UInt8", "UInt16", "UInt32", "UInt64", "UInt128", "UInt256",
     "Word8", "Word16", "Word32", "Word64", "Word128"}

\* The variants named by the inner match of the integer arm
\* (conversion.rs 354-374)
IntVariantNames ==
    {"Int", "Int8", "Int16", "Int32", "Int64", "Int128", "Int256",
     "UInt", "UInt8", "UInt16", "UInt32", "UInt64", "UInt128", "UInt256",
     "Word8", "Word16", "Word32", "Word64", "Word128", "Word256"}

\* The inner matches that name the variant (conversion.rs 354-376, 436-443)
VariantName(cadence_value) ==
    InnerMatch(cadence_value.k,
               IF cadence_value.k \in IntKinds THEN IntVariantNames
               ELSE {"Struct", "Resource", "Event", "Contract", "Enum"})

RECURSIVE cadence_value_to_value(_), EncodeItems(_, _), EncodeEntries(_, _), EncodeFields(_, _)

\* A loop that leaves out the items that do not encode
RECURSIVE EncodeItemsLossy(_, _)
EncodeItemsLossy(value, i) ==
    IF i > Len(value) THEN Ok(<<>>)
    ELSE LET r == cadence_value_to_value(value[i])
             rest == EncodeItemsLossy(value, i + 1) IN
         IF ~r.ok THEN rest ELSE Ok(<<r.v>> \o rest.v)

\* for item in value { array_values.push(cadence_value_to_value(item)?) }
EncodeItems(value, i) ==
    IF i > Len(value) THEN Ok(<<>>)
    ELSE LET r == cadence_value_to_value(value[i]) IN
         IF ~r.ok THEN r
         ELSE LET rest == EncodeItems(value, i + 1) IN
              IF ~rest.ok THEN rest ELSE Ok(<<r.v>> \o rest.v)

\* A loop that writes one entry for each key, the last
RECURSIVE EncodeEntriesLastOfKey(_, _)
EncodeEntriesLastOfKey(value, i) ==
    IF i > Len(value) THEN Ok(<<>>)
    ELSE LET key == cadence_value_to_value(value[i].key) IN
         IF ~key.ok THEN key
         ELSE LET val == cadence_value_to_value(value[i].value) IN
              IF ~val.ok THEN val
              ELSE LET rest == EncodeEntriesLastOfKey(value, i + 1) IN
                   IF ~rest.ok THEN rest
                   ELSE IF \E h \in (i + 1)..Len(value) : value[h].key = value[i].key THEN rest
                   ELSE Ok(<<JObj(Insert(Insert(EmptyMap, "key", key.v), "value", val.v))>> \o rest.v)

\* The entries of a Dictionary (conversion.rs 416-421)
EncodeEntries(value, i) ==
    IF i > Len(value) THEN Ok(<<>>)
    ELSE LET key == cadence_value_to_value(value[i].key) IN
         IF ~key.ok THEN key
         ELSE LET val == cadence_value_to_value(value[i].value) IN
              IF ~val.ok THEN val
              ELSE LET rest == EncodeEntries(value, i + 1) IN
                   IF ~rest.ok THEN rest
                   ELSE Ok(<<JObj(Insert(Insert(EmptyMap, "key", key.v), "value", val.v))>> \o rest.v)

\* The fields of a composite (conversion.rs 451-456)
EncodeFields(fields, i) ==
    IF i > Len(fields) THEN Ok(<<>>)
    ELSE LET val == cadence_value_to_value(fields[i].value) IN
         IF ~val.ok THEN val
         ELSE LET rest == EncodeFields(fields, i + 1) IN
              IF ~rest.ok THEN rest
              ELSE Ok(<<JObj(Insert(Insert(EmptyMap, "name", JStr(fields[i].name)), "value", val.v))>>
                      \o rest.v)

\* pub fn cadence_value_to_value(cadence_value: &CadenceValue)
cadence_value_to_value(cadence_value) ==
    CASE cadence_value.k = "Void" -> Ok(JObj(Insert(EmptyMap, "type", JStr("Void"))))
      [] cadence_value.k = "Optional" ->
            IF cadence_value.o = <<>> THEN Ok(Envelope("Optional", JNull))
            ELSE LET inner_value == cadence_value_to_value(cadence_value.o[1]) IN
                 IF ~inner_value.ok THEN inner_value ELSE Ok(Envelope("Optional", inner_value.v))
      [] cadence_value.k = "Bool" -> Ok(Envelope("Bool", JBool(cadence_value.b)))
      [] cadence_value.k \in IntKinds ->
            LET type_name == VariantName(cadence_value) IN
            IF ~type_name.ok THEN type_name ELSE Ok(Envelope(type_name.v, JStr(cadence_value.s)))
      [] cadence_value.k \in TextKinds \ IntKinds ->
            Ok(Envelope(cadence_value.k, JStr(cadence_value.s)))
      [] cadence_value.k = "Array" ->
            LET array_values == EncodeItems(cadence_value.a, 1) IN
            IF ~array_values.ok THEN array_values ELSE Ok(Envelope("Array", JArr(array_values.v)))
      [] cadence_value.k = "Dictionary" ->
            LET dict_entries == EncodeEntries(cadence_value.d, 1) IN
            IF ~dict_entries.ok THEN dict_entries ELSE Ok(Envelope("Dictionary", JArr(dict_entries.v)))
      [] cadence_value.k \in CompositeKinds ->
            LET type_name == VariantName(cadence_value) IN
            IF ~type_name.ok THEN type_name
            ELSE LET fields_arr == EncodeFields(cadence_value.fields, 1) IN
                 IF ~fields_arr.ok THEN fields_arr
                 ELSE Ok(Envelope(type_name.v,
                                  JObj(Insert(Insert(EmptyMap, "id", JStr(cadence_value.id)),
                                              "fields", JArr(fields_arr.v)))))
      [] OTHER -> Err("UnsupportedType", "Unsupported type for conversion to JSON: " \o cadence_value.k)

(***************************************************************************)
(* The typed bindings (impls.rs) and the derived record bindings           *)
(* (cadence_json_derive/src/lib.rs).  A native type is a descriptor:       *)
(*   [t |-> "String"], [t |-> "bool"], [t |-> "int", name |-> "u8"],       *)
(*   [t |-> "float", name |-> "f64"],                                      *)
(*   [t |-> "Vec", e |-> T], [t |-> "Option", e |-> T],                    *)
(*   [t |-> "HashMap" or "BTreeMap", key |-> K, val |-> V],                *)
(*   [t |-> "Tuple", a |-> T1, b |-> T2], [t |-> "CadenceValue"],          *)
(*   [t |-> "Record", decl |-> the struct declaration].                    *)
(* A native value is a string, a boolean, an integer [neg, mag], a float    *)
(* [neg, mag, pow], a                                                      *)
(* sequence (Vec, tuple), <<>> or <<x>> (Option), a function from keys to  *)
(* values (maps) or from member identifiers to values (records).           *)
(***************************************************************************)
TString == [t |-> "String"]

TBool == [t |-> "bool"]

TInt(name) == [t |-> "int", name |-> name]

TFloat(name) == [t |-> "float", name |-> name]

TVec(e) == [t |-> "Vec", e |-> e]

TOption(e) == [t |-> "Option", e |-> e]

THashMap(key, val) == [t |-> "HashMap", key |-> key, val |-> val]

TBTreeMap(key, val) == [t |-> "BTreeMap", key |-> key, val |-> val]

TTuple(a, b) == [t |-> "Tuple", a |-> a, b |-> b]

TCadenceValue == [t |-> "CadenceValue"]

TRecord(decl) == [t |-> "Record", decl |-> decl]

(***************************************************************************)
(* find_serde_rename (cadence_json_derive/src/lib.rs 130-152).  A field    *)
(* attribute is [path, metas]; an entry of its list is [path, form, lit]:  *)
(* form "flag" is a bare path, "str" is path = "lit", "other" is path =    *)
(* followed by anything but a string literal, "list" is path(...).         *)
(***************************************************************************)
\* attr.parse_nested_meta(closure): the closure sets rename_value on
\* rename = "lit"; an entry whose value the closure leaves unread, or fails
\* on, ends the parse with an error, which let _ = drops.  found is
\* rename_value so far, <<>> or <<name>>.
RECURSIVE ParseNestedMeta(_, _, _)
ParseNestedMeta(metas, i, found) ==
    IF i > Len(metas) THEN found
    ELSE IF metas[i].path = "rename"
         THEN IF metas[i].form = "str"
              THEN ParseNestedMeta(metas, i + 1, <<metas[i].lit>>)
              ELSE found
         ELSE IF metas[i].form = "flag"
              THEN ParseNestedMeta(metas, i + 1, found)
              ELSE found

\* for attr in &field.attrs: the first serde attribute that yields a name
RECURSIVE FindRenameFrom(_, _)
FindRenameFrom(attrs, i) ==
    IF i > Len(attrs) THEN <<>>
    ELSE IF attrs[i].path = "serde"
         THEN LET rename_value == ParseNestedMeta(attrs[i].metas, 1, <<>>) IN
              IF rename_value # <<>> THEN rename_value ELSE FindRenameFrom(attrs, i + 1)
         ELSE FindRenameFrom(attrs, i + 1)

find_serde_rename(field) == FindRenameFrom(field.attrs, 1)

\* renamed.unwrap_or_else(|| field_name_str.clone())
\* (cadence_json_derive/src/lib.rs 27-28, 80-81)
field_name_for_cadence(field) ==
    LET renamed == find_serde_rename(field) IN
    IF renamed # <<>> THEN renamed[1] ELSE field.ident

\* A search that takes the last field of the name
FindLastField(fields, name) ==
    IF \E i \in 1..Len(fields) : fields[i].name = name
    THEN CHOOSE i \in 1..Len(fields) :
            fields[i].name = name /\ \A h \in (i + 1)..Len(fields) : fields[h].name # name
    ELSE 0

\* fields.iter().find(|f| f.name == name): the position of the first field
\* of that name, 0 when there is none (cadence_json_derive/src/lib.rs 85-86)
FindField(fields, name) ==
    IF \E i \in 1..Len(fields) : fields[i].name = name
    THEN CHOOSE i \in 1..Len(fields) :
            fields[i].name = name /\ \A h \in 1..(i - 1) : fields[h].name # name
    ELSE 0

\* Ord on the keys of a BTreeMap<K, _>: strings by bytes, integers by value
KeyLess(K, a, b) ==
    IF K.t = "int"
    THEN IF a.neg # b.neg THEN a.neg
         ELSE IF a.neg THEN MagLess(b.mag, a.mag) ELSE MagLess(a.mag, b.mag)
    ELSE StrLess(a, b)

\* The keys from the greatest down
RECURSIVE SortedKeysDescending(_, _)
SortedKeysDescending(K, S) ==
    IF S = {} THEN <<>>
    ELSE LET m == CHOOSE x \in S : \A y \in S \ {x} : KeyLess(K, y, x)
         IN <<m>> \o SortedKeysDescending(K, S \ {m})

RECURSIVE SortedKeys(_, _)
SortedKeys(K, S) ==
    IF S = {} THEN <<>>
    ELSE LET m == CHOOSE x \in S : \A y \in S \ {x} : KeyLess(K, x, y)
         IN <<m>> \o SortedKeys(K, S \ {m})

\* The order in which for (key, value) in self visits a map: ascending for
\* a BTreeMap; for a HashMap whatever order its hasher gives, here the order
\* of the map's keys in hash_order (a sequence holding every key once)
IterationOrder(T, m, hash_order) ==
    IF T.t = "BTreeMap" THEN SortedKeys(T.key, DOMAIN m)
    ELSE SelectSeq(hash_order, LAMBDA key : key \in DOMAIN m)

(***************************************************************************)
(* trait ToCadenceValue: self.to_cadence_value() for a value x of type T.  *)
(***************************************************************************)
RECURSIVE ToCadenceValue(_, _, _), ToItems(_, _, _, _), ToEntries(_, _, _, _), ToFields(_, _, _, _)

\* for item in self { values.push(item.to_cadence_value()?) } (impls.rs 160-162)
ToItems(E, items, i, hash_order) ==
    IF i > Len(items) THEN Ok(<<>>)
    ELSE LET r == ToCadenceValue(E, items[i], hash_order) IN
         IF ~r.ok THEN r
         ELSE LET rest == ToItems(E, items, i + 1, hash_order) IN
              IF ~rest.ok THEN rest ELSE Ok(<<r.v>> \o rest.v)

\* for (key, value) in self { entries.push(DictionaryEntry { .. }) }
\* (impls.rs 223-228, 265-270); keys is what is left to visit
ToEntries(T, m, keys, hash_order) ==
    IF keys = <<>> THEN Ok(<<>>)
    ELSE LET key == ToCadenceValue(T.key, Head(keys), hash_order) IN
         IF ~key.ok THEN key
         ELSE LET value == ToCadenceValue(T.val, m[Head(keys)], hash_order) IN
              IF ~value.ok THEN value
              ELSE LET rest == ToEntries(T, m, Tail(keys), hash_order) IN
                   IF ~rest.ok THEN rest
                   ELSE Ok(<<DictionaryEntry(key.v, value.v)>> \o rest.v)

\* The generated field conversions, in declaration order
\* (cadence_json_derive/src/lib.rs 22-37)
ToFields(members, self, i, hash_order) ==
    IF i > Len(members) THEN Ok(<<>>)
    ELSE LET value == ToCadenceValue(members[i].ty, self[members[i].ident], hash_order) IN
         IF ~value.ok THEN value
         ELSE LET rest == ToFields(members, self, i + 1, hash_order) IN
              IF ~rest.ok THEN rest
              ELSE Ok(<<CompositeField(field_name_for_cadence(members[i]), value.v)>> \o rest.v)

\* The impl generated by #[derive(ToCadenceValue)]
\* (cadence_json_derive/src/lib.rs 7-58)
derive_to_cadence_value(decl, self, hash_order) ==
    LET fields == ToFields(decl.members, self, 1, hash_order) IN
    IF ~fields.ok THEN fields
    ELSE Ok(Composite("Struct", decl.name, fields.v))

ToCadenceValue(T, x, hash_order) ==
    CASE T.t = "String" -> Ok(Text("String", x))
      [] T.t = "bool" -> Ok(CBool(x))
      [] T.t = "int" -> Ok(Text(IntType(T.name).variant, IntToString(x)))
      [] T.t = "float" -> Ok(Text("Fix64", FloatToString(x)))
      [] T.t = "Vec" ->
            LET values == ToItems(T.e, x, 1, hash_order) IN
            IF ~values.ok THEN values ELSE Ok(Array(values.v))
      [] T.t = "Option" ->
            IF x = <<>> THEN Ok(Optional(<<>>))
            ELSE LET cadence_value == ToCadenceValue(T.e, x[1], hash_order) IN
                 IF ~cadence_value.ok THEN cadence_value ELSE Ok(Optional(<<cadence_value.v>>))
      [] T.t \in {"HashMap", "BTreeMap"} ->
            LET entries == ToEntries(T, x, IterationOrder(T, x, hash_order), hash_order) IN
            IF ~entries.ok THEN entries ELSE Ok(Dictionary(entries.v))
      [] T.t = "Tuple" ->
            LET first == ToCadenceValue(T.a, x[1], hash_order) IN
            IF ~first.ok THEN first
            ELSE LET second == ToCadenceValue(T.b, x[2], hash_order) IN
                 IF ~second.ok THEN second ELSE Ok(Array(<<first.v, second.v>>))
      [] T.t = "Record" -> derive_to_cadence_value(T.decl, x, hash_order)

(***************************************************************************)
(* trait FromCadenceValue: T::from_cadence_value(value).                   *)
(***************************************************************************)
\* value.parse().map_err(|e| Error::Custom(format!("Failed to parse {}: {}", ..)))
\* (impls.rs 77-85)
ParseAs(target, text) ==
    LET r == ParseInt(text, target.signed, target.bits) IN
    IF r.ok THEN Ok(r.v)
    ELSE Err("Custom", "Failed to parse " \o target.name \o ": " \o ParseIntErrorText(r.kind))

\* A match on every integer kind
IntAcceptsAnyKind(target, kind) == kind \in IntKinds

\* The kinds an integer target matches (impls.rs 76-85)
IntAccepts(target, kind) == kind \in {target.variant, "Int", "UInt"}

\* impl FromCadenceValue for $t (impls.rs 74-92)
IntFromCadenceValue(target, value) ==
    IF IntAccepts(target, value.k) THEN ParseAs(target, value.s)
    ELSE TypeMismatch(target.variant, value)

\* impl FromCadenceValue for f32 and for f64 (impls.rs 122-154)
FloatFromCadenceValue(name, value) ==
    IF value.k \in {"Fix64", "UFix64"}
    THEN LET r == ParseFloat(value.s) IN
         IF r.ok THEN Ok(r.v)
         ELSE Err("Custom", "Failed to parse " \o name \o ": " \o ParseFloatErrorText(r.kind))
    ELSE TypeMismatch("Fix64 or UFix64", value)

\* A length check that lets longer arrays through
ArityAtLeast(items) == Len(items) >= 2

\* value.len() != 2 fails the tuple decode (impls.rs 321)
ArityMatches(items) == Len(items) = 2

\* An insert that leaves the value of a key already there
InsertIfAbsent(result, key, value) ==
    [k \in DOMAIN result \cup {key} |-> IF k \in DOMAIN result THEN result[k] ELSE value]

\* result.insert(key, value) on a HashMap or BTreeMap (impls.rs 245, 287):
\* the value of a key already there is replaced
MapInsert(result, key, value) ==
    [k \in DOMAIN result \cup {key} |-> IF k = key THEN value ELSE result[k]]

RECURSIVE FromCadenceValue(_, _), FromItems(_, _, _), FromEntries(_, _, _, _), FromFields(_, _, _, _)

\* A loop that decodes every item and reports the last failure
RECURSIVE FromItemsLastError(_, _, _)
FromItemsLastError(E, items, i) ==
    IF i > Len(items) THEN Ok(<<>>)
    ELSE LET r == FromCadenceValue(E, items[i])
             rest == FromItemsLastError(E, items, i + 1) IN
         IF ~rest.ok THEN rest
         ELSE IF ~r.ok THEN r ELSE Ok(<<r.v>> \o rest.v)

\* for item in value { result.push(T::from_cadence_value(item)?) } (impls.rs 172-174)
FromItems(E, items, i) ==
    IF i > Len(items) THEN Ok(<<>>)
    ELSE LET r == FromCadenceValue(E, items[i]) IN
         IF ~r.ok THEN r
         ELSE LET rest == FromItems(E, items, i + 1) IN
              IF ~rest.ok THEN rest ELSE Ok(<<r.v>> \o rest.v)

\* for entry in value { key?; value?; result.insert(key, value) }
\* (impls.rs 242-246, 284-288); result is the map built so far
FromEntries(T, entries, i, result) ==
    IF i > Len(entries) THEN Ok(result)
    ELSE LET key == FromCadenceValue(T.key, entries[i].key) IN
         IF ~key.ok THEN key
         ELSE LET value == FromCadenceValue(T.val, entries[i].value) IN
              IF ~value.ok THEN value
              ELSE FromEntries(T, entries, i + 1, MapInsert(result, key.v, value.v))

\* The generated field extractions, in declaration order
\* (cadence_json_derive/src/lib.rs 75-95); self is the record built so far
FromFields(members, fields, i, self) ==
    IF i > Len(members) THEN Ok(self)
    ELSE LET name == field_name_for_cadence(members[i])
             at == FindField(fields, name) IN
         IF at = 0 THEN Err("Custom", "Field " \o name \o " not found in Cadence value")
         ELSE LET value == FromCadenceValue(members[i].ty, fields[at].value) IN
              IF ~value.ok THEN value
              ELSE FromFields(members, fields, i + 1, Insert(self, members[i].ident, value.v))

\* An impl that reads the fields of every composite kind
DeriveFromAnyComposite(decl, value) ==
    IF value.k \in CompositeKinds THEN FromFields(decl.members, value.fields, 1, EmptyMap)
    ELSE TypeMismatch("Struct", value)

\* The impl generated by #[derive(FromCadenceValue)]
\* (cadence_json_derive/src/lib.rs 60-127)
derive_from_cadence_value(decl, value) ==
    IF value.k = "Struct" THEN FromFields(decl.members, value.fields, 1, EmptyMap)
    ELSE TypeMismatch("Struct", value)

FromCadenceValue(T, value) ==
    CASE T.t = "CadenceValue" -> Ok(value)
      [] T.t = "String" ->
            IF value.k = "String" THEN Ok(value.s) ELSE TypeMismatch("String", value)
      [] T.t = "bool" ->
            IF value.k = "Bool" THEN Ok(value.b) ELSE TypeMismatch("Bool", value)
      [] T.t = "int" -> IntFromCadenceValue(IntType(T.name), value)
      [] T.t = "float" -> FloatFromCadenceValue(T.name, value)
      [] T.t = "Vec" ->
            IF value.k = "Array"
            THEN FromItems(T.e, value.a, 1)
            ELSE TypeMismatch("Array", value)
      [] T.t = "Option" ->
            IF value.k = "Optional"
            THEN IF value.o = <<>> THEN Ok(<<>>)
                 ELSE LET inner == FromCadenceValue(T.e, value.o[1]) IN
                      IF ~inner.ok THEN inner ELSE Ok(<<inner.v>>)
            ELSE TypeMismatch("Optional", value)
      [] T.t \in {"HashMap", "BTreeMap"} ->
            IF value.k = "Dictionary"
            THEN FromEntries(T, value.d, 1, EmptyMap)
            ELSE TypeMismatch("Dictionary", value)
      [] T.t = "Tuple" ->
            IF value.k = "Array"
            THEN IF ~ArityMatches(value.a)
                 THEN Err("Custom", "Expected array of length 2 for tuple, got " \o ToString(Len(value.a)))
                 ELSE LET e0 == Index(value.a, 0) IN
                      IF ~e0.ok THEN e0
                      ELSE LET first == FromCadenceValue(T.a, e0.v) IN
                           IF ~first.ok THEN first
                           ELSE LET e1 == Index(value.a, 1) IN
                                IF ~e1.ok THEN e1
                                ELSE LET second == FromCadenceValue(T.b, e1.v) IN
                                     IF ~second.ok THEN second ELSE Ok(<<first.v, second.v>>)
            ELSE TypeMismatch("Array", value)
      [] T.t = "Record" -> derive_from_cadence_value(T.decl, value)

(***************************************************************************)
(* The fallback bridge (conversion.rs 470-715): a Value is encoded to a    *)
(* JSON tree, its numbers are widened, its primitives are unwrapped and    *)
(* the tree is handed to serde_json::from_value::<T>.                      *)
(***************************************************************************)
\* std::any::type_name::<T>() (conversion.rs 477).  The bridge reads the
\* text with contains, starts_with and ==; a record lives in the crate app.
RECURSIVE TypeName(_)
TypeName(T) ==
    CASE T.t = "String" -> "alloc::string::String"
      [] T.t = "bool" -> "bool"
      [] T.t \in {"int", "float"} -> T.name
      [] T.t = "Vec" -> "alloc::vec::Vec<" \o TypeName(T.e) \o ">"
      [] T.t = "Option" -> "core::option::Option<" \o TypeName(T.e) \o ">"
      [] T.t = "HashMap" ->
            "std::collections::hash::map::HashMap<" \o TypeName(T.key) \o ", " \o TypeName(T.val) \o ">"
      [] T.t = "BTreeMap" ->
            "alloc::collections::btree::map::BTreeMap<" \o TypeName(T.key) \o ", " \o TypeName(T.val) \o ">"
      [] T.t = "Tuple" -> "(" \o TypeName(T.a) \o ", " \o TypeName(T.b) \o ")"
      [] T.t = "CadenceValue" -> "serde_cadence::CadenceValue"
      [] T.t = "Record" -> "app::" \o T.decl.name

\* str::contains
Contains(text, word) ==
    \E i \in 1..(Len(text) - Len(word) + 1) : SubSeq(text, i, i + Len(word) - 1) = word

\* str::starts_with
StartsWith(text, word) == Len(word) <= Len(text) /\ SubSeq(text, 1, Len(word)) = word

\* serde_json::to_string of a tree: compact, the members of an object in
\* ascending name order.  No string in use needs an escape.
RECURSIVE JsonText(_), JoinItems(_, _), JoinMembers(_, _)
JoinItems(a, i) ==
    IF i > Len(a) THEN ""
    ELSE (IF i > 1 THEN "," ELSE "") \o JsonText(a[i]) \o JoinItems(a, i + 1)

JoinMembers(o, names) ==
    IF names = <<>> THEN ""
    ELSE "\"" \o Head(names) \o "\":" \o JsonText(o[Head(names)])
         \o (IF Tail(names) = <<>> THEN "" ELSE ",") \o JoinMembers(o, Tail(names))

JsonText(tree) ==
    CASE tree.j = "null" -> "null"
      [] tree.j = "bool" -> IF tree.b THEN "true" ELSE "false"
      [] tree.j = "num" -> IF "f" \in DOMAIN tree.n THEN tree.n.f ELSE IntToString(tree.n)
      [] tree.j = "str" -> "\"" \o tree.s \o "\""
      [] tree.j = "arr" -> "[" \o JoinItems(tree.a, 1) \o "]"
      [] tree.j = "obj" -> "{" \o JoinMembers(tree.o, SortedNames(DOMAIN tree.o)) \o "}"

\* The arms of process_numeric_values that turn a string into a number
\* (conversion.rs 596-609): "Int" through parse::<i64>(), "UInt" through
\* parse::<u64>(); Err when the payload is left as it is
Widen(type_name, s) ==
    LET signed == ParseInt(s, TRUE, 64)
        unsigned == ParseInt(s, FALSE, 64) IN
    IF type_name = "Int" /\ signed.ok THEN Ok(JNum(signed.v))
    ELSE IF type_name = "UInt" /\ unsigned.ok THEN Ok(JNum(unsigned.v))
    ELSE Err("None", "")

\* fn process_numeric_values(value: Value) -> Value (conversion.rs 588-698)
RECURSIVE process_numeric_values(_)
process_numeric_values(value) ==
    IF IsObj(value)
    THEN LET obj == value.o IN
         IF Has(obj, "type") /\ IsStr(obj["type"]) /\ Has(obj, "value")
         THEN LET inner_value == obj["value"] IN
              CASE obj["type"].s \in {"Int", "UInt"} ->
                    IF IsStr(inner_value) /\ Widen(obj["type"].s, inner_value.s).ok
                    THEN JObj(Insert(obj, "value", Widen(obj["type"].s, inner_value.s).v))
                    ELSE value
                [] obj["type"].s \in {"Struct", "Resource", "Event", "Contract", "Enum"} ->
                    IF IsObj(inner_value) /\ Has(inner_value.o, "fields") /\ IsArr(inner_value.o["fields"])
                    THEN LET fields == inner_value.o["fields"].a
                             processed_fields ==
                                [i \in DOMAIN fields |->
                                    IF IsObj(fields[i]) /\ Has(fields[i].o, "value")
                                    THEN JObj(Insert(fields[i].o, "value",
                                                     process_numeric_values(fields[i].o["value"])))
                                    ELSE fields[i]] IN
                         JObj(Insert(obj, "value", JObj(Insert(inner_value.o, "fields", JArr(processed_fields)))))
                    ELSE value
                [] obj["type"].s = "Array" ->
                    IF IsArr(inner_value)
                    THEN JObj(Insert(obj, "value",
                                     JArr([i \in DOMAIN inner_value.a |-> process_numeric_values(inner_value.a[i])])))
                    ELSE value
                [] obj["type"].s = "Dictionary" ->
                    IF IsArr(inner_value)
                    THEN LET entries == inner_value.a
                             WithKey(entry_obj) ==
                                IF Has(entry_obj, "key")
                                THEN Insert(entry_obj, "key", process_numeric_values(entry_obj["key"]))
                                ELSE entry_obj
                             WithValue(entry_obj) ==
                                IF Has(entry_obj, "value")
                                THEN Insert(entry_obj, "value", process_numeric_values(entry_obj["value"]))
                                ELSE entry_obj
                             processed_entries ==
                                [i \in DOMAIN entries |->
                                    IF IsObj(entries[i]) THEN JObj(WithValue(WithKey(entries[i].o)))
                                    ELSE entries[i]] IN
                         JObj(Insert(obj, "value", JArr(processed_entries)))
                    ELSE value
                [] OTHER -> JObj(Insert(obj, "value", process_numeric_values(inner_value)))
         ELSE JObj([key \in DOMAIN obj |->
                        IF key # "type" THEN process_numeric_values(obj[key]) ELSE obj[key]])
    ELSE IF IsArr(value)
    THEN JArr([i \in DOMAIN value.a |-> process_numeric_values(value.a[i])])
    ELSE value

\* fn extract_primitive_value(value: &Value) -> Value (conversion.rs 701-715)
extract_primitive_value(value) ==
    IF IsObj(value)
    THEN IF Has(value.o, "type") /\ IsStr(value.o["type"]) /\ Has(value.o, "value")
         THEN IF value.o["value"].j \in {"str", "num", "bool", "null"} THEN value.o["value"] ELSE value
         ELSE value
    ELSE value

\* The check of serde's integer visitors left out: the number is taken
\* whatever the target
NumberAsAny(target, n) == Ok(n)

\* serde_json::from_value::<$t>(Value::Number(n)): the visitor of the
\* primitive takes a number of its range and refuses every other
\* (conversion.rs 530-531, 545-546, 583-584)
NumberAs(target, n) ==
    IF "f" \in DOMAIN n THEN Err("SerdeJson", "invalid type: floating point, expected " \o target.name)
    ELSE IF Fits(n, target.signed, target.bits) THEN Ok(n)
    ELSE Err("SerdeJson", "invalid value: integer " \o IntToString(n) \o ", expected " \o target.name)

\* What a tree is called in serde's "invalid type" errors
Unexpected(tree) ==
    CASE tree.j = "null" -> "null"
      [] tree.j = "bool" -> "boolean"
      [] tree.j = "num" -> "number"
      [] tree.j = "str" -> "string"
      [] tree.j = "arr" -> "sequence"
      [] tree.j = "obj" -> "map"

InvalidType(tree, expected) ==
    Err("SerdeJson", "invalid type: " \o Unexpected(tree) \o ", expected " \o expected)

\* serde_json::from_value::<T>(tree) for the targets handed to the bridge
\* (conversion.rs 512-513, 570-571, 574-575, 583-584): integers, String,
\* bool, Vec, Option, 2-tuples, maps with String keys, and records that
\* derive Deserialize without attributes
RECURSIVE from_value(_, _), ItemsFromValue(_, _, _), MembersFromValue(_, _, _, _),
          FieldsFromValue(_, _, _, _)
ItemsFromValue(E, a, i) ==
    IF i > Len(a) THEN Ok(<<>>)
    ELSE LET r == from_value(E, a[i]) IN
         IF ~r.ok THEN r
         ELSE LET rest == ItemsFromValue(E, a, i + 1) IN
              IF ~rest.ok THEN rest ELSE Ok(<<r.v>> \o rest.v)

MembersFromValue(T, o, names, result) ==
    IF names = <<>> THEN Ok(result)
    ELSE LET r == from_value(T.val, o[Head(names)]) IN
         IF ~r.ok THEN r
         ELSE MembersFromValue(T, o, Tail(names), Insert(result, Head(names), r.v))

FieldsFromValue(members, tree, i, self) ==
    IF i > Len(members) THEN Ok(self)
    ELSE LET present == IF IsArr(tree) THEN i \in DOMAIN tree.a ELSE Has(tree.o, members[i].ident) IN
         IF ~present
         THEN IF members[i].ty.t = "Option"
              THEN FieldsFromValue(members, tree, i + 1, Insert(self, members[i].ident, <<>>))
              ELSE Err("SerdeJson", "missing field " \o members[i].ident)
         ELSE LET r == from_value(members[i].ty,
                                  IF IsArr(tree) THEN tree.a[i] ELSE tree.o[members[i].ident]) IN
              IF ~r.ok THEN r
              ELSE FieldsFromValue(members, tree, i + 1, Insert(self, members[i].ident, r.v))

from_value(T, tree) ==
    CASE T.t = "int" ->
            IF tree.j = "num" THEN NumberAs(IntType(T.name), tree.n) ELSE InvalidType(tree, T.name)
      [] T.t = "String" -> IF IsStr(tree) THEN Ok(tree.s) ELSE InvalidType(tree, "a string")
      [] T.t = "bool" -> IF IsBool(tree) THEN Ok(tree.b) ELSE InvalidType(tree, "a boolean")
      [] T.t = "Vec" -> IF IsArr(tree) THEN ItemsFromValue(T.e, tree.a, 1) ELSE InvalidType(tree, "a sequence")
      [] T.t = "Option" ->
            IF IsNull(tree) THEN Ok(<<>>)
            ELSE LET inner == from_value(T.e, tree) IN
                 IF ~inner.ok THEN inner ELSE Ok(<<inner.v>>)
      [] T.t = "Tuple" ->
            IF ~IsArr(tree) THEN InvalidType(tree, "a tuple of size 2")
            ELSE IF Len(tree.a) < 2
                 THEN Err("SerdeJson", "invalid length " \o ToString(Len(tree.a)) \o ", expected a tuple of size 2")
            ELSE LET first == from_value(T.a, tree.a[1]) IN
                 IF ~first.ok THEN first
                 ELSE LET second == from_value(T.b, tree.a[2]) IN
                      IF ~second.ok THEN second
                      ELSE IF Len(tree.a) > 2 THEN Err("SerdeJson", "fewer elements in array")
                      ELSE Ok(<<first.v, second.v>>)
      [] T.t \in {"HashMap", "BTreeMap"} ->
            IF IsObj(tree) THEN MembersFromValue(T, tree.o, SortedNames(DOMAIN tree.o), EmptyMap)
            ELSE InvalidType(tree, "a map")
      [] T.t = "Record" ->
            IF IsObj(tree) \/ IsArr(tree)
            THEN LET self == FieldsFromValue(T.decl.members, tree, 1, EmptyMap) IN
                 IF self.ok /\ IsArr(tree) /\ Len(tree.a) > Len(T.decl.members)
                 THEN Err("SerdeJson", "fewer elements in array")
                 ELSE self
            ELSE InvalidType(tree, "struct " \o T.decl.name)

\* A naming that takes every primitive payload of the encoded key, not only
\* a string
KeyStrOfPrimitive(key) ==
    IF key.k = "String" THEN Ok(key.s)
    ELSE LET key_json == cadence_value_to_value(key) IN
         IF ~key_json.ok THEN key_json
         ELSE LET payload == extract_primitive_value(key_json.v) IN
              IF IsStr(payload) THEN Ok(payload.s)
              ELSE IF payload.j \in {"num", "bool", "null"} THEN Ok(JsonText(payload))
              ELSE Ok(JsonText(key_json.v))

\* The name of a Dictionary key in the object built for a map
\* (conversion.rs 487-500)
KeyStrOfJson(key_json) ==
    IF ~key_json.ok THEN key_json
    ELSE IF IsStr(extract_primitive_value(key_json.v))
         THEN Ok(extract_primitive_value(key_json.v).s)
         ELSE Ok(JsonText(key_json.v))

key_str(key) ==
    IF key.k = "String" THEN Ok(key.s) ELSE KeyStrOfJson(cadence_value_to_value(key))

\* for entry in entries { ...; map.insert(key_str, final_value) }
\* (conversion.rs 485-509)
RECURSIVE MapOfEntries(_, _, _), InsertEntry(_, _, _, _, _)
InsertEntry(entries, i, map, name, value_json) ==
    IF ~name.ok THEN name
    ELSE IF ~value_json.ok THEN value_json
    ELSE MapOfEntries(entries, i + 1,
                      Insert(map, name.v, extract_primitive_value(process_numeric_values(value_json.v))))

MapOfEntries(entries, i, map) ==
    IF i > Len(entries) THEN Ok(map)
    ELSE InsertEntry(entries, i, map, key_str(entries[i].key), cadence_value_to_value(entries[i].value))

\* for field in &value.fields { ...; obj.insert(field.name, ...) }
\* (conversion.rs 565-569)
RECURSIVE ObjectOfFields(_, _, _), InsertField(_, _, _, _)
InsertField(fields, i, obj, field_json) ==
    IF ~field_json.ok THEN field_json
    ELSE ObjectOfFields(fields, i + 1,
                        Insert(obj, fields[i].name,
                               extract_primitive_value(process_numeric_values(field_json.v))))

ObjectOfFields(fields, i, obj) ==
    IF i > Len(fields) THEN Ok(obj)
    ELSE InsertField(fields, i, obj, cadence_value_to_value(fields[i].value))

\* The special handling of the numeric targets (conversion.rs 517-555):
\* Ok(the number handed to serde_json::from_value) when it returns, Err
\* when the call goes on to the paths below
NumberOfParsed(parsed) == IF parsed.ok THEN Ok(JNum(parsed.v)) ELSE Err("None", "")

NumericShortcut(name, cadence_value) ==
    LET is_numeric == name \in {"i8", "i16", "i32", "i64", "i128", "u8", "u16", "u32", "u64", "u128",
                                "f32", "f64"}
        integer == StartsWith(name, "i") \/ StartsWith(name, "u")
        signed == cadence_value.k \in {"Int", "Int8", "Int16", "Int32", "Int64", "Int128", "Int256"}
        unsigned == cadence_value.k \in {"UInt", "UInt8", "UInt16", "UInt32", "UInt64", "UInt128",
                                         "UInt256"} IN
    IF is_numeric /\ integer /\ (signed \/ unsigned)
    THEN NumberOfParsed(ParseInt(cadence_value.s, signed, 64))
    ELSE Err("None", "")

\* The argument of the serde_json::from_value the bridge ends with, or the
\* error it returns before (conversion.rs 474-584)
ObjectOf(members) == IF ~members.ok THEN members ELSE Ok(JObj(members.v))

HandedAfterShortcut(name, cadence_value, shortcut, json_value) ==
    IF shortcut.ok THEN shortcut
    ELSE IF ~json_value.ok THEN json_value
    ELSE IF Contains(name, "::") /\ ~StartsWith(name, "std::")
         THEN IF cadence_value.k = "Struct"
              THEN ObjectOf(ObjectOfFields(cadence_value.fields, 1, EmptyMap))
              ELSE Ok(process_numeric_values(json_value.v))
         ELSE Ok(extract_primitive_value(process_numeric_values(json_value.v)))

HandedAs(name, cadence_value) ==
    IF (Contains(name, "HashMap") \/ Contains(name, "BTreeMap")) /\ cadence_value.k = "Dictionary"
    THEN ObjectOf(MapOfEntries(cadence_value.d, 1, EmptyMap))
    ELSE HandedAfterShortcut(name, cadence_value, NumericShortcut(name, cadence_value),
                             cadence_value_to_value(cadence_value))

Handed(T, cadence_value) == HandedAs(TypeName(T), cadence_value)

\* pub fn from_cadence_value<T>(cadence_value: &CadenceValue) -> Result<T>
\* (conversion.rs 472-584)
FromHanded(T, handed) == IF ~handed.ok THEN handed ELSE from_value(T, handed.v)

from_cadence_value(T, cadence_value) == FromHanded(T, Handed(T, cadence_value))

(***************************************************************************)
(* The boundary functions (lib.rs 497-590).  A JSON text is                *)
(* [wf |-> FALSE] when serde_json cannot read it and                       *)
(* [wf |-> TRUE, tree |-> the tree it denotes] otherwise; the printers     *)
(* give [wf |-> TRUE, tree |-> .., pretty |-> ..].                          *)
(***************************************************************************)
RECURSIVE DeserializeCadenceValue(_), DeserializeItems(_, _), DeserializeEntries(_, _),
          DeserializeFields(_, _)

DeserializeItems(arr, i) ==
    IF i > Len(arr) THEN Ok(<<>>)
    ELSE LET r == DeserializeCadenceValue(arr[i]) IN
         IF ~r.ok THEN r
         ELSE LET rest == DeserializeItems(arr, i + 1) IN
              IF ~rest.ok THEN rest ELSE Ok(<<r.v>> \o rest.v)

\* Vec<DictionaryEntry> (lib.rs 212-216)
DeserializeEntries(arr, i) ==
    IF i > Len(arr) THEN Ok(<<>>)
    ELSE IF ~IsObj(arr[i]) THEN Err("SerdeJson", "invalid type: expected struct DictionaryEntry")
    ELSE IF ~Has(arr[i].o, "key") THEN Err("SerdeJson", "missing field key")
    ELSE IF ~Has(arr[i].o, "value") THEN Err("SerdeJson", "missing field value")
    ELSE LET key == DeserializeCadenceValue(arr[i].o["key"]) IN
         IF ~key.ok THEN key
         ELSE LET value == DeserializeCadenceValue(arr[i].o["value"]) IN
              IF ~value.ok THEN value
              ELSE LET rest == DeserializeEntries(arr, i + 1) IN
                   IF ~rest.ok THEN rest
                   ELSE Ok(<<DictionaryEntry(key.v, value.v)>> \o rest.v)

\* Vec<CompositeField> (lib.rs 218-222)
DeserializeFields(arr, i) ==
    IF i > Len(arr) THEN Ok(<<>>)
    ELSE IF ~IsObj(arr[i]) THEN Err("SerdeJson", "invalid type: expected struct CompositeField")
    ELSE IF ~Has(arr[i].o, "name") THEN Err("SerdeJson", "missing field name")
    ELSE IF ~IsStr(arr[i].o["name"]) THEN Err("SerdeJson", "invalid type: expected a string")
    ELSE IF ~Has(arr[i].o, "value") THEN Err("SerdeJson", "missing field value")
    ELSE LET value == DeserializeCadenceValue(arr[i].o["value"]) IN
         IF ~value.ok THEN value
         ELSE LET rest == DeserializeFields(arr, i + 1) IN
              IF ~rest.ok THEN rest
              ELSE Ok(<<CompositeField(arr[i].o["name"].s, value.v)>> \o rest.v)

\* #[derive(Deserialize)] #[serde(tag = "type")] on CadenceValue
\* (lib.rs 12-210): an object whose "type" names a variant and whose other
\* members are the variant's fields; members that are no field are skipped.
\* Covers the kinds up to the composites, in the map form of every struct.
DeserializeCadenceValue(tree) ==
    IF ~IsObj(tree) THEN Err("SerdeJson", "invalid type: expected internally tagged enum CadenceValue")
    ELSE IF ~Has(tree.o, "type") THEN Err("SerdeJson", "missing field type")
    ELSE IF ~IsStr(tree.o["type"]) THEN Err("SerdeJson", "invalid type: expected variant identifier")
    ELSE LET kind == tree.o["type"].s
             has == Has(tree.o, "value")
             value == tree.o["value"] IN
         IF kind = "Void" THEN Ok(Void)
         ELSE IF kind = "Optional" THEN
                 IF ~has \/ IsNull(value) THEN Ok(Optional(<<>>))
                 ELSE LET inner == DeserializeCadenceValue(value) IN
                      IF ~inner.ok THEN inner ELSE Ok(Optional(<<inner.v>>))
         ELSE IF kind \in AllKinds \ DescriptorKinds /\ ~has THEN
                 Err("SerdeJson", "missing field value")
         ELSE
         CASE kind = "Bool" ->
                 IF IsBool(value) THEN Ok(CBool(value.b))
                 ELSE Err("SerdeJson", "invalid type: expected a boolean")
           [] kind \in TextKinds ->
                 IF IsStr(value) THEN Ok(Text(kind, value.s))
                 ELSE Err("SerdeJson", "invalid type: expected a string")
           [] kind = "Array" ->
                 IF ~IsArr(value) THEN Err("SerdeJson", "invalid type: expected a sequence")
                 ELSE LET items == DeserializeItems(value.a, 1) IN
                      IF ~items.ok THEN items ELSE Ok(Array(items.v))
           [] kind = "Dictionary" ->
                 IF ~IsArr(value) THEN Err("SerdeJson", "invalid type: expected a sequence")
                 ELSE LET entries == DeserializeEntries(value.a, 1) IN
                      IF ~entries.ok THEN entries ELSE Ok(Dictionary(entries.v))
           [] kind \in CompositeKinds ->
                 IF ~IsObj(value) THEN Err("SerdeJson", "invalid type: expected struct CompositeValue")
                 ELSE IF ~Has(value.o, "id") THEN Err("SerdeJson", "missing field id")
                 ELSE IF ~IsStr(value.o["id"]) THEN Err("SerdeJson", "invalid type: expected a string")
                 ELSE IF ~Has(value.o, "fields") THEN Err("SerdeJson", "missing field fields")
                 ELSE IF ~IsArr(value.o["fields"]) THEN Err("SerdeJson", "invalid type: expected a sequence")
                 ELSE LET fields == DeserializeFields(value.o["fields"].a, 1) IN
                      IF ~fields.ok THEN fields
                      ELSE Ok(Composite(kind, value.o["id"].s, fields.v))
           [] kind \in DescriptorKinds -> Err("SerdeJson", "descriptor payloads are outside the model")
           [] OTHER -> Err("SerdeJson", "unknown variant " \o kind \o "")

\* serde_json::from_str::<CadenceValue>(s) (lib.rs 542, 551, 561)
ParseCadenceValue(s) ==
    IF ~s.wf THEN Err("SerdeJson", "syntax error")
    ELSE DeserializeCadenceValue(s.tree)

\* fn to_cadence_value<T: Serialize>(value: &T) (lib.rs 566-577)
lib_to_cadence_value(T, value) ==
    Err("Custom", "to_cadence_value not fully implemented")

\* fn from_cadence_value<T>(cadence_value: &CadenceValue) (lib.rs 579-590)
lib_from_cadence_value(T, cadence_value) ==
    Err("Custom", "from_cadence_value not fully implemented")

\* let cadence_value = to_cadence_value(value)?; serde_json::to_string(..)
\* (lib.rs 498-535).  #[derive(Serialize)] prints the same envelope as
\* cadence_value_to_value for the kinds it covers.
PrintVia(T, value, pretty) ==
    LET cadence_value == lib_to_cadence_value(T, value) IN
    IF ~cadence_value.ok THEN cadence_value
    ELSE LET json == cadence_value_to_value(cadence_value.v) IN
         IF ~json.ok THEN Err("SerdeJson", json.msg)
         ELSE Ok([wf |-> TRUE, tree |-> json.v, pretty |-> pretty])

to_string(T, value) == PrintVia(T, value, FALSE)

to_string_pretty(T, value) == PrintVia(T, value, TRUE)

to_vec(T, value) == PrintVia(T, value, FALSE)

to_vec_pretty(T, value) == PrintVia(T, value, TRUE)

\* let cadence_value: CadenceValue = serde_json::from_str(s)?;
\* from_cadence_value(&cadence_value) (lib.rs 538-563)
ReadVia(T, s) ==
    LET cadence_value == ParseCadenceValue(s) IN
    IF ~cadence_value.ok THEN cadence_value
    ELSE lib_from_cadence_value(T, cadence_value.v)

from_str(T, s) == ReadVia(T, s)

from_slice(T, v) == ReadVia(T, v)

from_reader(T, rdr) == ReadVia(T, rdr)

(***************************************************************************)
(* The arguments of the calls.                                             *)
(***************************************************************************)
\* The longest array, entry list, field list or digit string of an argument
MaxLen == 2

\* The most entries of a Dictionary handed to a map binding, and the most
\* fields of a Composite handed to a record binding
MaxEntries == 3

\* Sequences over S of length at most n
SeqsUpTo(S, n) == UNION {[1..m -> S] : m \in 0..n}

\* {"type": type_name, "value": payload} as a tree
Env(type_name, payload) == JObj([type |-> JStr(type_name), value |-> payload])

Zero == [neg |-> FALSE, mag |-> <<>>]

One == [neg |-> FALSE, mag |-> <<1>>]

Five == [neg |-> FALSE, mag |-> <<5>>]

\* mag - 1 for a power of two (its last digit is 2, 4, 6 or 8)
Pred(mag) == [mag EXCEPT ![Len(mag)] = @ - 1]

\* A payload for each kind with a string payload
SampleText(kind) ==
    CASE kind = "String" -> "a"
      [] kind = "Address" -> "0x1"
      [] kind \in FixKinds -> "1.5"
      [] OTHER -> "5"

\* Descriptor payloads: a path, and stand-ins for the static types
SampleDescriptor(kind) ==
    IF kind = "Path" THEN [domain |-> "storage", identifier |-> "a"]
    ELSE [static_type |-> "Int"]

Leaves ==
    {Void, Optional(<<>>), CBool(TRUE), CBool(FALSE), Text("String", ""), Text("Int", "-5")}
    \cup {Text(kind, SampleText(kind)) : kind \in TextKinds}

SmallLeaves == {Void, Optional(<<>>), CBool(TRUE), Text("String", "a"), Text("Int", "5")}

KeyLeaves == {Text("String", "a"), Text("Int", "5")}

Descriptors == {Descriptor(kind, SampleDescriptor(kind)) : kind \in DescriptorKinds}

\* Containers of leaves
Level1 ==
    {Optional(<<x>>) : x \in Leaves}
    \cup {Array(a) : a \in SeqsUpTo(SmallLeaves, MaxLen)}
    \cup {Dictionary(d) : d \in SeqsUpTo([key : KeyLeaves, value : SmallLeaves], MaxLen)}
    \cup {Composite(kind, "S", f) :
            kind \in CompositeKinds, f \in SeqsUpTo([name : {"f", "g"}, value : {CBool(TRUE), Text("Int", "5")}], MaxLen)}

Level1Small ==
    {Optional(<<Void>>), Optional(<<Optional(<<>>)>>), Array(<<>>), Array(<<CBool(TRUE), Void>>),
     Dictionary(<<DictionaryEntry(Text("String", "a"), Text("Int", "5"))>>),
     Dictionary(<<DictionaryEntry(Text("String", "a"), CBool(TRUE)),
                  DictionaryEntry(Text("String", "a"), CBool(FALSE))>>),
     Composite("Event", "E", <<CompositeField("f", Text("String", "a"))>>),
     Composite("Struct", "S", <<>>)}
    \cup Descriptors

\* Containers of containers, and of descriptors
Level2 ==
    {Optional(<<x>>) : x \in Level1Small}
    \cup {Array(<<CBool(TRUE), x>>) : x \in Level1Small}
    \cup {Dictionary(<<DictionaryEntry(Text("String", "a"), x)>>) : x \in Level1Small}
    \cup {Dictionary(<<DictionaryEntry(x, Text("String", "a"))>>) : x \in Level1Small}
    \cup {Composite("Resource", "R", <<CompositeField("f", Text("Int", "5")), CompositeField("g", x)>>) :
            x \in Level1Small}

\* The values handed to cadence_value_to_value
Values == Leaves \cup Descriptors \cup Level1 \cup Level2

\* The "value" members tried under every "type"
Payloads ==
    {JNull, JBool(TRUE), JStr("a"), JStr("5"), JNum(Five), JArr(<<>>), JObj(EmptyMap),
     Env("Bool", JBool(TRUE)), Env("Optional", JNull),
     JArr(<<Env("Bool", JBool(TRUE))>>),
     JArr(<<Env("Frobnicate", JStr("a"))>>),
     JArr(<<JObj([key |-> Env("String", JStr("a")), value |-> Env("Int", JStr("5"))])>>),
     JObj([id |-> JStr("S"), fields |-> JArr(<<>>)]),
     JObj([id |-> JStr("S"),
           fields |-> JArr(<<JObj([name |-> JStr("f"), value |-> Env("Bool", JBool(TRUE))])>>)])}
    \cup {JObj([value |-> x]) : x \in
            {JNull, JBool(TRUE), JStr("a"), JNum(Five), JArr(<<>>), JArr(<<JBool(TRUE), JStr("a")>>),
             JArr(<<Env("Frobnicate", JStr("a"))>>),
             JArr(<<JStr("a")>>),
             JArr(<<JObj([key |-> JStr("a"), value |-> JNum(Five)])>>),
             JArr(<<JObj([key |-> JStr("a")])>>),
             JArr(<<JObj([value |-> JStr("a")])>>),
             JArr(<<JObj([key |-> Env("Frobnicate", JNull), value |-> JStr("a")])>>),
             JObj(EmptyMap),
             JObj([id |-> JStr("S")]),
             JObj([fields |-> JArr(<<>>)]),
             JObj([id |-> JNum(Five), fields |-> JArr(<<>>)]),
             JObj([id |-> JStr("S"), fields |-> JStr("a")]),
             JObj([id |-> JStr("S"), fields |-> JArr(<<>>)]),
             JObj([id |-> JStr("S"), fields |-> JArr(<<JStr("a")>>)]),
             JObj([id |-> JStr("S"), fields |-> JArr(<<JObj([value |-> JBool(TRUE)])>>)]),
             JObj([id |-> JStr("S"), fields |-> JArr(<<JObj([name |-> JNull, value |-> JBool(TRUE)])>>)]),
             JObj([id |-> JStr("S"), fields |-> JArr(<<JObj([name |-> JStr("f")])>>)]),
             JObj([id |-> JStr("S"),
                   fields |-> JArr(<<JObj([name |-> JStr("f"), value |-> JBool(TRUE)]),
                                     JObj([name |-> JStr("g"), value |-> Env("Frobnicate", JNull)])>>)]),
             JObj([id |-> JStr("S"),
                   fields |-> JArr(<<JObj([name |-> JStr("g"), value |-> JStr("a")]),
                                     JObj([name |-> JStr("f"), value |-> JBool(TRUE)])>>)])}}

\* The "type" members tried: every kind and a tag that is none
TypeNames == AllKinds \cup {"Frobnicate"}

Envelopes == {Env(type_name, payload) : type_name \in TypeNames, payload \in Payloads}

\* Trees that are no envelope: scalars, arrays, and objects without a
\* "type" string or without a "value"
BareTrees ==
    {JNull, JBool(FALSE), JStr("a"), JNum(Five), JNum([neg |-> TRUE, mag |-> <<5>>]),
     JNum([neg |-> FALSE, mag |-> Pow2_63]), JNum([f |-> "1.5"]),
     JArr(<<>>), JArr(<<JBool(TRUE), JNull>>), JArr(<<Env("Frobnicate", JStr("a"))>>),
     JArr(<<JStr("a"), Env("Frobnicate", JStr("a")), Env("Path", JNull)>>),
     JObj(EmptyMap), JObj([a |-> JStr("x")]), JObj([b |-> JBool(TRUE), a |-> JNull]),
     JObj([a |-> Env("Frobnicate", JStr("a"))]),
     JObj([type |-> JNum(Five), value |-> JBool(TRUE)]),
     JObj([type |-> JStr("Bool")]), JObj([value |-> JBool(TRUE)]),
     JObj([type |-> JStr("Bool"), value |-> JObj([value |-> JBool(TRUE)]), extra |-> JNull])}
    \cup {JObj([type |-> JStr(type_name)]) : type_name \in TypeNames}

\* A static type, as CadenceType is written (lib.rs 298-462)
SimpleType(kind) == JObj([kind |-> JStr(kind)])

\* The payload of each descriptor kind, as PathValue, TypeValue, RangeValue,
\* CapabilityValue and FunctionValue are written (lib.rs 230-262)
DescriptorPayload(kind) ==
    CASE kind = "Path" -> JObj([domain |-> JStr("storage"), identifier |-> JStr("a")])
      [] kind = "Type" -> JObj([static_type |-> SimpleType("Int")])
      [] kind = "InclusiveRange" ->
            JObj([start |-> Env("Int", JStr("1")), end |-> Env("Int", JStr("5")), step |-> Env("Int", JStr("1"))])
      [] kind = "Capability" ->
            JObj([id |-> JStr("1"), address |-> JStr("0x1"), borrow_type |-> SimpleType("Int")])
      [] kind = "Function" -> JObj([function_type |-> SimpleType("Int")])

\* Envelopes of the descriptor kinds, with the payload as the printer writes
\* it and one level further in, where the decoder's other arms look
DescriptorTrees ==
    {Env(kind, DescriptorPayload(kind)) : kind \in DescriptorKinds}
    \cup {Env(kind, JObj([value |-> DescriptorPayload(kind)])) : kind \in DescriptorKinds}
    \cup {JArr(<<Env("Path", DescriptorPayload("Path"))>>)}

\* Bare numbers at the ends of the 64-bit ranges
NumberTrees ==
    {JNum(Zero), JNum(One), JNum(Num(FALSE, Pred(Pow2_63))),
     JNum(Num(TRUE, Pow2_63)), JNum(Num(FALSE, Pred(Pow2_64))),
     JNum([f |-> "-0.25"]), JNum([f |-> "1.0"]), JNum([f |-> "1e20"]),
     JArr(<<JNum(Num(FALSE, Pow2_63)), JNum(Five)>>)}

\* Objects that are no envelope, with members that decode and that do not
ObjectTrees ==
    {JObj([b |-> JNum(Five), a |-> JStr("x"), c |-> JArr(<<JNull>>)]),
     JObj([b |-> Env("Frobnicate", JNull), a |-> Env("Array", JNull), c |-> JNull]),
     JObj([type |-> JNull, value |-> JStr("a")]),
     JObj([type |-> JStr("Bool"), other |-> JBool(TRUE)]),
     JObj([type |-> JStr("String"), value |-> JObj([value |-> JStr("a")]), a |-> JStr("x")]),
     JObj([type |-> JStr("Frobnicate"), value |-> JNull, a |-> JStr("x")]),
     JObj([value |-> Env("Bool", JObj([value |-> JBool(TRUE)])), a |-> JObj([b |-> JNull])])}

\* Arrays, entry lists with a repeated key and field lists out of name
\* order, in the places where the decoder reads them
OrderedTrees ==
    LET entry(key, value) == JObj([key |-> key, value |-> value])
        field(name, value) == JObj([name |-> JStr(name), value |-> value])
        inner(x) == JObj([value |-> x]) IN
    {JArr(<<JStr("b"), JStr("a"), JStr("b")>>),
     JArr(<<JArr(<<JBool(TRUE), JBool(FALSE)>>), JArr(<<>>), JNull>>),
     Env("Array", inner(JArr(<<JStr("b"), JNum(Five), JStr("a"), JStr("b")>>))),
     Env("Dictionary", inner(JArr(<<entry(JStr("a"), JNum(Five)), entry(JStr("b"), JBool(TRUE)),
                                    entry(JStr("a"), JNum(Five)), entry(JStr("a"), JStr("x"))>>))),
     Env("Dictionary", inner(JArr(<<entry(JNum(Five), JArr(<<JStr("b"), JStr("a")>>)),
                                    entry(JNum(Five), JArr(<<JStr("a"), JStr("b")>>))>>))),
     Env("Struct", inner(JObj([id |-> JStr("S"),
                               fields |-> JArr(<<field("g", JStr("a")), field("f", JBool(TRUE)),
                                                 field("g", JNull), field("a", JStr("a"))>>)]))),
     Env("Event", inner(JObj([id |-> JStr("E"),
                              fields |-> JArr(<<field("z", JArr(<<JStr("b"), JStr("a")>>)),
                                                field("a", JObj([b |-> JStr("x"), a |-> JStr("y")]))>>)]))),
     Env("Optional", Env("Array", inner(JArr(<<JStr("b"), JStr("a")>>))))}

\* The trees handed to value_to_cadence_value
Trees == Envelopes \cup BareTrees \cup DescriptorTrees \cup NumberTrees \cup ObjectTrees \cup OrderedTrees

\* The characters of the integer payloads tried in every combination
PayloadChars == {"0", "1", "2", "9", "+", "-", "a", " "}

RECURSIVE Concat(_)
Concat(parts) == IF parts = <<>> THEN "" ELSE Head(parts) \o Concat(Tail(parts))

ShortPayloads == {Concat(parts) : parts \in SeqsUpTo(PayloadChars, MaxLen)}

\* Payloads at and around the ends of each target's range, and others that
\* are no decimal integer
EdgePayloads(name) ==
    {"300", "256", "-1", "+5", "-0", "+0", "007", "000300", "1e2", "1.5", "0x5", "5_0",
     "99999999999999999999", "-99999999999999999999"}
    \cup CASE name = "u8" -> {"255", "+255", "0255"}
           [] name = "u16" -> {"65535", "65536", "065535"}
           [] name = "u32" -> {"4294967295", "4294967296"}
           [] name = "u64" -> {"18446744073709551615", "18446744073709551616"}
           [] name = "i8" -> {"127", "128", "-128", "-129", "-0128"}
           [] name = "i16" -> {"32767", "32768", "-32768", "-32769"}
           [] name = "i32" -> {"2147483647", "2147483648", "-2147483648", "-2147483649"}
           [] name = "i64" -> {"9223372036854775807", "9223372036854775808",
                               "-9223372036854775808", "-9223372036854775809"}

IntNames == {t.name : t \in IntTypes}

\* from_cadence_value for the integer targets
IntCalls ==
    {[fn |-> "from_cadence_value", T |-> TInt(name), value |-> Text(kind, payload)] :
        name \in IntNames, kind \in {"Int", "UInt", "UInt8", "Int64"},
        payload \in ShortPayloads \cup {"300", "-129", "256"}}
    \cup UNION {{[fn |-> "from_cadence_value", T |-> TInt(name), value |-> Text(kind, payload)] :
                    kind \in {IntType(name).variant, "Int", "UInt"}, payload \in EdgePayloads(name)} :
                name \in IntNames}
    \cup {[fn |-> "from_cadence_value", T |-> TInt(name), value |-> value] :
            name \in IntNames, value \in {CBool(TRUE), Text("String", "5"), Text("Fix64", "5"), Void,
                                          Optional(<<Text("Int", "5")>>), Array(<<>>)}}

\* Field attributes: the entries of a #[serde(...)] list
Flag(path) == [path |-> path, form |-> "flag", lit |-> ""]

NameValue(path, lit) == [path |-> path, form |-> "str", lit |-> lit]

MetaList(path) == [path |-> path, form |-> "list", lit |-> ""]

Attr(path, metas) == [path |-> path, metas |-> metas]

\* The attribute lists tried on a member, mapping it to the name lit
AttrChoices(lit) ==
    {<<>>,
     <<Attr("serde", <<NameValue("rename", lit)>>)>>,
     <<Attr("doc", <<>>), Attr("serde", <<NameValue("rename", lit)>>)>>,
     <<Attr("serde", <<Flag("default"), NameValue("rename", lit)>>)>>,
     <<Attr("serde", <<NameValue("default", "f"), NameValue("rename", lit)>>)>>,
     <<Attr("serde", <<NameValue("rename", lit), NameValue("default", "f")>>)>>,
     <<Attr("serde", <<Flag("skip_serializing")>>), Attr("serde", <<NameValue("rename", lit)>>)>>,
     <<Attr("serde", <<NameValue("skip_serializing_if", "f")>>), Attr("serde", <<NameValue("rename", lit)>>)>>,
     <<Attr("serde", <<MetaList("rename")>>)>>,
     <<Attr("serde", <<Flag("default")>>)>>}

Member(ident, attrs, ty) == [ident |-> ident, attrs |-> attrs, ty |-> ty]

\* The input of the derive macros: a struct with the named members
\* name: String and age: u8 (as Person of examples/manual.rs begins), under
\* every choice of attributes, the first member mapped to "n" or onto "age"
Decls ==
    {[name |-> "Person", members |-> <<Member("name", a1, TString), Member("age", a2, TInt("u8"))>>] :
        a1 \in AttrChoices("n") \cup AttrChoices("age"), a2 \in AttrChoices("years")}

Persons == {[name |-> n, age |-> a] : n \in {"a", "Alice"}, a \in {Five, Zero}}

\* to_cadence_value of a record
RecordToCalls ==
    {[fn |-> "to_cadence_value", T |-> TRecord(decl), x |-> x, hash_order |-> <<>>] :
        decl \in Decls, x \in Persons}

\* The declarations whose from_cadence_value is called on every Composite
FromDecls ==
    {[name |-> "Person", members |-> <<Member("name", a1, TString), Member("age", a2, TInt("u8"))>>] :
        a1 \in {<<>>, <<Attr("serde", <<NameValue("rename", "n")>>)>>,
                <<Attr("serde", <<NameValue("default", "f"), NameValue("rename", "n")>>)>>},
        a2 \in {<<>>}}

FieldChoices ==
    [name : {"name", "age", "n"}, value : {Text("String", "a"), Text("UInt8", "5"), Text("UInt8", "300")}]

\* from_cadence_value of a record
RecordFromCalls ==
    {[fn |-> "from_cadence_value", T |-> TRecord(decl), value |-> Composite(kind, "Person", f)] :
        decl \in FromDecls, kind \in {"Struct", "Resource"}, f \in SeqsUpTo(FieldChoices, MaxEntries)}
    \cup {[fn |-> "from_cadence_value", T |-> TRecord(decl), value |-> Composite("Struct", "Other", f)] :
            decl \in FromDecls, f \in SeqsUpTo(FieldChoices, MaxEntries)}
    \cup {[fn |-> "from_cadence_value", T |-> TRecord(decl), value |-> Composite(kind, "Person", f)] :
            decl \in FromDecls, kind \in {"Event", "Contract", "Enum"}, f \in SeqsUpTo(FieldChoices, MaxLen)}
    \cup {[fn |-> "from_cadence_value", T |-> TRecord(decl), value |-> value] :
            decl \in FromDecls, value \in {Void, Text("String", "a"), Array(<<>>), Dictionary(<<>>)}}

\* Dictionary entries with string keys, and with integer keys that denote
\* the same number in several ways
StringEntries ==
    [key : {Text("String", "a"), Text("String", "b"), Text("String", "c")},
     value : {Text("Int", "1"), Text("Int", "-2")}]

OtherEntries ==
    [key : {Text("UInt8", "5"), Text("UInt8", "+5"), Text("UInt8", "05"), Text("UInt8", "6"), Text("UInt8", "x")},
     value : {Text("String", "a"), Text("String", "b"), CBool(TRUE)}]

StringMaps == {THashMap(TString, TInt("i32")), TBTreeMap(TString, TInt("i32"))}

OtherMaps == {THashMap(TInt("u8"), TString), TBTreeMap(TInt("u8"), TString)}

\* from_cadence_value of a map
MapFromCalls ==
    {[fn |-> "from_cadence_value", T |-> T, value |-> Dictionary(d)] :
        T \in StringMaps,
        d \in SeqsUpTo(StringEntries, MaxEntries)
              \cup SeqsUpTo(StringEntries \cup [key : {Text("String", "a"), Text("Int", "1")},
                                                 value : {Text("Int", "x"), Text("Int", "1")}], MaxLen)}
    \cup {[fn |-> "from_cadence_value", T |-> T, value |-> Dictionary(d)] :
            T \in OtherMaps, d \in SeqsUpTo(OtherEntries, MaxLen)}
    \cup {[fn |-> "from_cadence_value", T |-> T, value |-> value] :
            T \in StringMaps \cup OtherMaps, value \in {Void, Array(<<>>), Composite("Struct", "S", <<>>)}}

MapKeys == {"a", "b", "c"}

MapValues == {Zero, Five, [neg |-> TRUE, mag |-> <<2>>], [neg |-> FALSE, mag |-> <<2, 1, 4, 7, 4, 8, 3, 6, 4, 7>>]}

\* The native string-to-integer maps
Maps == UNION {[keys -> MapValues] : keys \in SUBSET MapKeys}

\* Every order in which a HashMap may visit its keys
HashOrders == {o \in [1..Cardinality(MapKeys) -> MapKeys] : \A i, j \in DOMAIN o : i # j => o[i] # o[j]}

\* to_cadence_value of a map
MapToCalls ==
    {[fn |-> "to_cadence_value", T |-> THashMap(TString, TInt("i32")), x |-> m, hash_order |-> o] :
        m \in Maps, o \in HashOrders}
    \cup {[fn |-> "to_cadence_value", T |-> TBTreeMap(TString, TInt("i32")), x |-> m, hash_order |-> <<>>] :
            m \in Maps}

\* The longest Array handed to a sequence or tuple binding
MaxItems == 3

\* Dictionary entries keyed by addresses, as examples/address_map.rs reads,
\* and by strings
AddressEntries ==
    [key : {Text("Address", "0x1"), Text("Address", "0xf1e2"), Text("String", "0x1")},
     value : {Text("String", "a"), Text("String", "b")}]

AddressMapTypes == {THashMap(TString, TString), TBTreeMap(TString, TString)}

\* from_cadence_value of a string-to-string map
AddressMapFromCalls ==
    {[fn |-> "from_cadence_value", T |-> T, value |-> Dictionary(d)] :
        T \in AddressMapTypes, d \in SeqsUpTo(AddressEntries, MaxLen)}

AddressKeys == {"0x1", "0xf1e2"}

\* The native string-to-string maps keyed by address texts
AddressMaps == UNION {[keys -> {"a", "b"}] : keys \in SUBSET AddressKeys}

\* to_cadence_value of a string-to-string map
AddressMapToCalls ==
    {[fn |-> "to_cadence_value", T |-> THashMap(TString, TString), x |-> m, hash_order |-> o] :
        m \in AddressMaps, o \in {<<"0x1", "0xf1e2">>, <<"0xf1e2", "0x1">>}}
    \cup {[fn |-> "to_cadence_value", T |-> TBTreeMap(TString, TString), x |-> m, hash_order |-> <<>>] :
            m \in AddressMaps}

\* Array elements for the sequence and tuple bindings: some decode as a
\* string, some as a u8, some as neither
Items ==
    {Text("String", "a"), Text("UInt8", "5"), Text("UInt8", "300"), Text("UInt8", "x"), CBool(TRUE)}

TupleTypes == {TTuple(TString, TInt("u8")), TTuple(TInt("u8"), TInt("u8")), TTuple(TInt("u8"), TString)}

\* from_cadence_value of a 2-tuple
TupleCalls ==
    {[fn |-> "from_cadence_value", T |-> T, value |-> Array(a)] :
        T \in TupleTypes, a \in SeqsUpTo(Items, MaxItems)}
    \cup {[fn |-> "from_cadence_value", T |-> T, value |-> value] :
            T \in TupleTypes, value \in {Void, Text("String", "a"), Dictionary(<<>>)}}

VecTypes == {TVec(TInt("u8")), TVec(TString)}

\* from_cadence_value of a Vec
VecCalls ==
    {[fn |-> "from_cadence_value", T |-> T, value |-> Array(a)] :
        T \in VecTypes, a \in SeqsUpTo(Items, MaxItems)}
    \cup {[fn |-> "from_cadence_value", T |-> T, value |-> value] :
            T \in VecTypes, value \in {Void, Text("String", "a"), Dictionary(<<>>)}}

\* Values of an integer type: its minimum, its maximum and some between
IntSamples(t) ==
    {Zero, One, Five, Num(FALSE, Pred(Limit(t.signed, t.bits)))}
    \cup (IF t.signed THEN {Num(TRUE, <<1>>), Num(TRUE, Limit(TRUE, t.bits))} ELSE {})

\* to_cadence_value of the primitive types
StringToCalls ==
    {[fn |-> "to_cadence_value", T |-> TString, x |-> x, hash_order |-> <<>>] :
        x \in {"", "a", "Alice", "0x1", "5", "-5", "true"}}

BoolToCalls ==
    {[fn |-> "to_cadence_value", T |-> TBool, x |-> x, hash_order |-> <<>>] : x \in BOOLEAN}

IntToCalls ==
    UNION {{[fn |-> "to_cadence_value", T |-> TInt(t.name), x |-> x, hash_order |-> <<>>] :
                x \in IntSamples(t)} : t \in IntTypes}

FloatNames == {"f32", "f64"}

\* The targets of the built-in primitive bindings
PrimitiveTypes == {TString, TBool} \cup {TInt(name) : name \in IntNames} \cup {TFloat(name) : name \in FloatNames}

\* A Value of every kind, and payloads no target can parse
KindValues ==
    Leaves \cup Descriptors
    \cup {Text(kind, "x") : kind \in TextKinds}
    \cup {Optional(<<Text("String", "a")>>), Optional(<<Text("Int", "5")>>), Array(<<>>),
          Array(<<Text("Int", "5")>>), Dictionary(<<>>)}
    \cup {Composite(kind, "S", <<>>) : kind \in CompositeKinds}

\* from_cadence_value of the primitive types on every kind
PrimitiveFromCalls ==
    {[fn |-> "from_cadence_value", T |-> T, value |-> value] : T \in PrimitiveTypes, value \in KindValues}
    \cup {[fn |-> "from_cadence_value", T |-> TFloat(name), value |-> Text(kind, payload)] :
            name \in FloatNames, kind \in FixKinds,
            payload \in {"", "1.5", "-0.25", "5", ".5", "5.", ".", "+", "-", "1e2", "1.5E-3", "1e", "1e+",
                         "inf", "-Infinity", "NaN", "nano", "0", "-0.0", "100", "1.50", "0x1", "1 5", "1.5.2"}}

\* A record that derives Deserialize, without attributes
PlainPerson ==
    [name |-> "Person", members |-> <<Member("name", <<>>, TString), Member("age", <<>>, TInt("u8"))>>]

\* Integer payloads at the ends of the 64-bit ranges
WidePayloads ==
    {"5", "-5", "+5", "007", "-0", "a", "", "1.5", "9223372036854775807", "9223372036854775808",
     "-9223372036854775808", "-9223372036854775809", "18446744073709551615", "18446744073709551616"}

\* Values with numeric payloads of every kind, bare and inside containers
WideValues ==
    {Text(kind, payload) : kind \in IntKinds \cup FixKinds, payload \in WidePayloads}
    \cup {Array(<<Text(kind, "5"), Text("String", "5")>>) : kind \in IntKinds \cup FixKinds}
    \cup {Dictionary(<<DictionaryEntry(Text(kind, "5"), Text(kind, "-5"))>>) : kind \in {"Int", "UInt", "Int8", "Fix64"}}
    \cup {Composite("Struct", "S", <<CompositeField("f", Optional(<<Text(kind, "5")>>))>>) :
            kind \in {"Int", "UInt", "Word8", "UFix64"}}
    \cup {Optional(<<Array(<<Optional(<<Text(kind, "5")>>)>>)>>) : kind \in {"Int", "UInt64"}}

\* The trees handed to process_numeric_values: the encoding of every Value
\* that has one, and the trees that are the encoding of none
WidenCalls ==
    {[fn |-> "process_numeric_values", tree |-> cadence_value_to_value(v).v] :
        v \in {w \in Values \cup WideValues : cadence_value_to_value(w).ok}}
    \cup {[fn |-> "process_numeric_values", tree |-> tree] : tree \in Trees}

\* conversion::from_cadence_value for the integer targets, every integer
\* kind and fixed-point kind
BridgeIntCalls ==
    UNION {{[fn |-> "conversion::from_cadence_value", T |-> TInt(name), value |-> Text(kind, payload)] :
                kind \in IntKinds \cup {"Fix64"}, payload \in EdgePayloads(name) \cup {"5", "-5", "0", "", "a"}} :
           name \in IntNames}

\* The other targets handed to the bridge
BridgeTypes ==
    {TString, TBool, TInt("i32"), TInt("u8"), TVec(TInt("i32")), TOption(TInt("i32")),
     TTuple(TInt("i32"), TInt("i32")), TTuple(TString, TInt("i32")),
     THashMap(TString, TInt("i32")), TBTreeMap(TString, TString), TRecord(PlainPerson)}

BridgeValues ==
    Leaves \cup Level1Small
    \cup {Array(<<Text("Int", "1"), Text("Int", "2")>>), Array(<<Text("Int8", "1")>>),
          Array(<<Text("String", "a"), Text("Int", "1")>>), Optional(<<Text("Int", "5")>>),
          Optional(<<Text("Int32", "5")>>),
          Composite("Struct", "Person", <<CompositeField("name", Text("String", "a")),
                                          CompositeField("age", Text("UInt8", "5"))>>),
          Composite("Struct", "Person", <<CompositeField("name", Text("String", "a")),
                                          CompositeField("age", Text("UInt", "5"))>>),
          Composite("Struct", "Person", <<CompositeField("age", Text("UInt", "300")),
                                          CompositeField("name", Text("String", "a")),
                                          CompositeField("age", Text("Int", "5"))>>),
          Composite("Struct", "Person", <<CompositeField("name", Text("String", "a"))>>),
          Composite("Resource", "Person", <<CompositeField("name", Text("String", "a")),
                                            CompositeField("age", Text("UInt", "5"))>>),
          Composite("Struct", "Person", <<CompositeField("name", Descriptor("Path", SampleDescriptor("Path")))>>)}

\* Dictionary entries with keys of every shape of encoding: a string
\* payload, a boolean or null payload, a payload that is a tree, no payload,
\* and a key without an encoding
BridgeEntries ==
    [key : {Text("String", "a"), Text("String", "5"), Text("Int", "5"), Text("UInt8", "5"),
            Text("Address", "0x1"), CBool(TRUE), Optional(<<>>), Void, Array(<<>>),
            Descriptor("Path", SampleDescriptor("Path"))},
     value : {Text("Int", "1"), Text("Int8", "1"), Text("String", "a"), Array(<<Text("Int", "1")>>)}]

BridgeMapTypes ==
    {THashMap(TString, TInt("i32")), TBTreeMap(TString, TString), TBTreeMap(TString, TVec(TInt("i32"))),
     TVec(THashMap(TString, TInt("i32")))}

\* conversion::from_cadence_value for the other targets
BridgeCalls ==
    {[fn |-> "conversion::from_cadence_value", T |-> T, value |-> value] :
        T \in BridgeTypes, value \in BridgeValues}
    \cup {[fn |-> "conversion::from_cadence_value", T |-> T, value |-> Dictionary(d)] :
            T \in BridgeMapTypes, d \in SeqsUpTo(BridgeEntries, MaxLen)}

\* Native values with a binding, each with its type
Bindables ==
    <<[T |-> TString, x |-> "a"], [T |-> TBool, x |-> TRUE], [T |-> TInt("u8"), x |-> Five],
      [T |-> TInt("i64"), x |-> [neg |-> TRUE, mag |-> <<2>>]],
      [T |-> TVec(TString), x |-> <<"a", "b">>], [T |-> TOption(TBool), x |-> <<>>],
      [T |-> TOption(TBool), x |-> <<FALSE>>], [T |-> TTuple(TString, TBool), x |-> <<"a", TRUE>>],
      [T |-> TBTreeMap(TString, TInt("i32")), x |-> [k \in {"a"} |-> Five]],
      [T |-> TCadenceValue, x |-> Text("Address", "0x1")],
      [T |-> TRecord([name |-> "Person",
                      members |-> <<Member("name", <<>>, TString), Member("age", <<>>, TInt("u8"))>>]),
       x |-> [name |-> "Alice", age |-> Five]]>>

\* The compact Cadence-JSON text of a native value
TextOf(b) ==
    [wf |-> TRUE,
     tree |-> cadence_value_to_value(IF b.T.t = "CadenceValue" THEN b.x
                                     ELSE ToCadenceValue(b.T, b.x, <<>>).v).v]

\* Texts: those of the native values, one that is no JSON, and JSON that is
\* no Cadence-JSON
Texts ==
    {TextOf(Bindables[i]) : i \in DOMAIN Bindables}
    \cup {[wf |-> FALSE]}
    \cup {[wf |-> TRUE, tree |-> t] :
            t \in {JNull, JStr("a"), JArr(<<>>), JObj(EmptyMap), Env("Frobnicate", JStr("a")),
                   JObj([type |-> JStr("Void")]), JObj([type |-> JStr("Bool")]),
                   Env("Bool", JStr("a")), Env("Void", JNull), Env("Optional", Env("Bool", JBool(TRUE))),
                   JObj([type |-> JStr("Bool"), value |-> JBool(TRUE), extra |-> JNull]),
                   Env("Struct", JObj([id |-> JStr("S")])), Env("Array", JArr(<<JNull>>)),
                   Env("Dictionary", JArr(<<JObj([key |-> Env("String", JStr("a"))])>>))}}

BindableTypes == {Bindables[i].T : i \in DOMAIN Bindables}

ReadFns == {"from_str", "from_slice", "from_reader"}

ReadCalls == {[fn |-> fn, T |-> T, s |-> text] : fn \in ReadFns, T \in BindableTypes, text \in Texts}

PrintFns == {"to_string", "to_string_pretty", "to_vec", "to_vec_pretty"}

(***************************************************************************)
(* The calls.  pc is "call" before the function has run, "return" once it  *)
(* has returned ret, and "back" once what it returned has been handed to   *)
(* the inverse function, which returned back.                              *)
(***************************************************************************)
None == [none |-> TRUE]

Init ==
    /\ pc = "call"
    /\ ret = None
    /\ back = None
    /\ \/ call \in {[fn |-> "value_to_cadence_value", tree |-> tree] : tree \in Trees}
       \/ call \in {[fn |-> "cadence_value_to_value", value |-> value] : value \in Values}
       \/ call \in IntCalls
       \/ call \in RecordToCalls
       \/ call \in RecordFromCalls
       \/ call \in MapFromCalls
       \/ call \in MapToCalls
       \/ call \in AddressMapFromCalls
       \/ call \in AddressMapToCalls
       \/ call \in TupleCalls
       \/ call \in VecCalls
       \/ call \in StringToCalls
       \/ call \in BoolToCalls
       \/ call \in IntToCalls
       \/ call \in PrimitiveFromCalls
       \/ call \in WidenCalls
       \/ call \in BridgeIntCalls
       \/ call \in BridgeCalls
       \/ call \in ReadCalls
       \/ \E fn \in PrintFns, i \in DOMAIN Bindables :
             call = [fn |-> fn, T |-> Bindables[i].T, value |-> Bindables[i].x]

Return(result) ==
    /\ pc = "call"
    /\ pc' = "return"
    /\ ret' = result
    /\ UNCHANGED <<call, back>>

Back(result) ==
    /\ pc = "return"
    /\ ret.ok
    /\ pc' = "back"
    /\ back' = result
    /\ UNCHANGED <<call, ret>>

DoValueToCadenceValue ==
    /\ call.fn = "value_to_cadence_value"
    /\ Return(value_to_cadence_value(call.tree))

DoCadenceValueToValue ==
    /\ call.fn = "cadence_value_to_value"
    /\ Return(cadence_value_to_value(call.value))

\* value_to_cadence_value(&cadence_value_to_value(&v)?)
DoDecodeEncoded ==
    /\ call.fn = "cadence_value_to_value"
    /\ Back(value_to_cadence_value(ret.v))

DoToCadenceValue ==
    /\ call.fn = "to_cadence_value"
    /\ Return(ToCadenceValue(call.T, call.x, call.hash_order))

\* T::from_cadence_value(&x.to_cadence_value()?)
DoFromEncoded ==
    /\ call.fn = "to_cadence_value"
    /\ Back(FromCadenceValue(call.T, ret.v))

DoFromCadenceValue ==
    /\ call.fn = "from_cadence_value"
    /\ Return(FromCadenceValue(call.T, call.value))

DoFromStr ==
    /\ call.fn = "from_str"
    /\ Return(from_str(call.T, call.s))

DoFromSlice ==
    /\ call.fn = "from_slice"
    /\ Return(from_slice(call.T, call.s))

DoFromReader ==
    /\ call.fn = "from_reader"
    /\ Return(from_reader(call.T, call.s))

DoToString ==
    /\ call.fn = "to_string"
    /\ Return(to_string(call.T, call.value))

DoToStringPretty ==
    /\ call.fn = "to_string_pretty"
    /\ Return(to_string_pretty(call.T, call.value))

DoToVec ==
    /\ call.fn = "to_vec"
    /\ Return(to_vec(call.T, call.value))

DoToVecPretty ==
    /\ call.fn = "to_vec_pretty"
    /\ Return(to_vec_pretty(call.T, call.value))

\* T::from_cadence_value(&value)?.to_cadence_value() for the maps; a HashMap
\* is visited in any order of its keys
DoToDecoded ==
    /\ call.fn = "from_cadence_value"
    /\ call.T.t \in {"HashMap", "BTreeMap"}
    /\ pc = "return"
    /\ ret.ok
    /\ \E hash_order \in IF call.T.t = "HashMap"
                          THEN {o \in [1..Cardinality(DOMAIN ret.v) -> DOMAIN ret.v] :
                                    \A i, j \in DOMAIN o : i # j => o[i] # o[j]}
                          ELSE {<<>>} :
            Back(ToCadenceValue(call.T, ret.v, hash_order))

\* The private helper of the bridge, on its own
DoProcessNumericValues ==
    /\ call.fn = "process_numeric_values"
    /\ Return(Ok(process_numeric_values(call.tree)))

\* conversion::from_cadence_value::<T>(&value)
DoBridge ==
    /\ call.fn = "conversion::from_cadence_value"
    /\ Return(from_cadence_value(call.T, call.value))

Next ==
    \/ DoValueToCadenceValue
    \/ DoCadenceValueToValue
    \/ DoDecodeEncoded
    \/ DoToCadenceValue
    \/ DoFromEncoded
    \/ DoFromCadenceValue
    \/ DoFromStr
    \/ DoFromSlice
    \/ DoFromReader
    \/ DoToString
    \/ DoToStringPretty
    \/ DoToVec
    \/ DoToVecPretty
    \/ DoProcessNumericValues
    \/ DoBridge
    \/ DoToDecoded

Spec == Init /\ [][Next]_vars

(***************************************************************************)
(* Properties of the structural transcoder.                                *)
(***************************************************************************)
\* A Value built only from Void, Optional, Bool, the string-payload kinds,
\* Array, Dictionary and the composite kinds
RECURSIVE Baseline(_)
Baseline(v) ==
    CASE v.k = "Optional" -> v.o = <<>> \/ Baseline(v.o[1])
      [] v.k = "Array" -> \A i \in DOMAIN v.a : Baseline(v.a[i])
      [] v.k = "Dictionary" -> \A i \in DOMAIN v.d : Baseline(v.d[i].key) /\ Baseline(v.d[i].value)
      [] v.k \in CompositeKinds -> \A i \in DOMAIN v.fields : Baseline(v.fields[i].value)
      [] v.k \in DescriptorKinds -> FALSE
      [] OTHER -> TRUE

\* C1: for every Value v built only from Void, Optional, Bool, String,
\* Address, the integer and fixed-point kinds, Array, Dictionary and the five
\* composite kinds, cadence_value_to_value(v) succeeds and
\* value_to_cadence_value of its result succeeds and is structurally equal
\* to v.
C1_FullRoundTrip ==
    (call.fn = "cadence_value_to_value" /\ Baseline(call.value)) =>
        /\ pc = "return" => ret.ok
        /\ pc = "back" => back = Ok(call.value)

\* The kinds C2 gives a wire payload shape for
SupportedKinds == AllKinds \ (DescriptorKinds \cup {"Void"})

IsEnvelope(tree) ==
    /\ IsObj(tree)
    /\ DOMAIN tree.o = {"type", "value"}
    /\ IsStr(tree.o["type"])
    /\ tree.o["type"].s \in SupportedKinds

\* The wire payload shape of each kind, as C2 lists them: a value is an
\* envelope whose payload has the shape of its kind
RECURSIVE IsWireValue(_), WireShape(_, _)
IsWireValue(tree) == IsEnvelope(tree) /\ WireShape(tree.o["type"].s, tree.o["value"])

WireShape(K, P) ==
    CASE K = "Bool" -> IsBool(P)
      [] K \in TextKinds -> IsStr(P)
      [] K = "Optional" -> IsNull(P) \/ IsWireValue(P)
      [] K = "Array" -> IsArr(P) /\ \A i \in DOMAIN P.a : IsWireValue(P.a[i])
      [] K = "Dictionary" ->
            /\ IsArr(P)
            /\ \A i \in DOMAIN P.a :
                /\ IsObj(P.a[i])
                /\ DOMAIN P.a[i].o = {"key", "value"}
                /\ IsWireValue(P.a[i].o["key"])
                /\ IsWireValue(P.a[i].o["value"])
      [] K \in CompositeKinds ->
            /\ IsObj(P)
            /\ DOMAIN P.o = {"id", "fields"}
            /\ IsStr(P.o["id"])
            /\ IsArr(P.o["fields"])
            /\ \A i \in DOMAIN P.o["fields"].a :
                LET field == P.o["fields"].a[i] IN
                /\ IsObj(field)
                /\ DOMAIN field.o = {"name", "value"}
                /\ IsStr(field.o["name"])
                /\ IsWireValue(field.o["value"])

\* C2: for an object {"type": K, "value": P} with K a supported kind,
\* value_to_cadence_value succeeds exactly when P has the wire payload shape
\* of K, and then returns the Value of kind K carrying that payload; for any
\* other P it fails with a shape-mismatch error.
C2_WireEnvelope ==
    (pc = "return" /\ call.fn = "value_to_cadence_value" /\ IsEnvelope(call.tree)) =>
        LET K == call.tree.o["type"].s
            P == call.tree.o["value"] IN
        IF WireShape(K, P)
        THEN /\ ret.ok
             /\ ret.v.k = K
             /\ K = "Bool" => ret.v.b = P.b
             /\ K \in TextKinds => ret.v.s = P.s
        ELSE ~ret.ok /\ ret.err = "InvalidCadenceValue"

\* C3: from_str, from_slice and from_reader applied to the well-formed
\* Cadence-JSON text of a bindable value return Ok with that value, and
\* to_string, to_string_pretty, to_vec and to_vec_pretty return the printed
\* encoding of the value.
C3_BoundaryWrappers ==
    pc = "return" =>
        /\ call.fn \in ReadFns =>
            \A i \in DOMAIN Bindables :
                (call.T = Bindables[i].T /\ call.s = TextOf(Bindables[i])) => ret = Ok(Bindables[i].x)
        /\ call.fn \in PrintFns =>
            ret.ok /\ ret.v.tree = TextOf([T |-> call.T, x |-> call.value]).tree

\* The tags outside the discriminator set that a tree holds at the top level
\* or inside arrays, dictionary entries or composite fields
RECURSIVE UnknownTags(_)
UnknownTags(tree) ==
    IF IsArr(tree) THEN UNION {UnknownTags(tree.a[i]) : i \in DOMAIN tree.a}
    ELSE IF ~(IsObj(tree) /\ Has(tree.o, "type") /\ IsStr(tree.o["type"])) THEN {}
    ELSE IF tree.o["type"].s \notin AllKinds THEN {tree.o["type"].s}
    ELSE IF ~Has(tree.o, "value") THEN {}
    ELSE LET K == tree.o["type"].s
             P == tree.o["value"] IN
         CASE K = "Array" /\ IsArr(P) -> UnknownTags(P)
           [] K = "Dictionary" /\ IsArr(P) ->
                 UNION {IF IsObj(P.a[i])
                        THEN UNION {UnknownTags(P.a[i].o[n]) : n \in DOMAIN P.a[i].o \cap {"key", "value"}}
                        ELSE {} : i \in DOMAIN P.a}
           [] K \in CompositeKinds /\ IsObj(P) /\ Has(P.o, "fields") /\ IsArr(P.o["fields"]) ->
                 UNION {IF IsObj(P.o["fields"].a[i]) /\ Has(P.o["fields"].a[i].o, "value")
                        THEN UnknownTags(P.o["fields"].a[i].o["value"])
                        ELSE {} : i \in DOMAIN P.o["fields"].a}
           [] OTHER -> {}

\* C4: value_to_cadence_value applied to a JSON object whose "type" member is
\* a string outside the fixed discriminator set fails with an unknown-kind
\* error that carries that tag, at the top level and at any nesting depth
\* inside arrays, dictionary entries or composite fields; such an object is
\* never turned into a Value.
C4_UnknownRejected ==
    (pc = "return" /\ call.fn = "value_to_cadence_value" /\ UnknownTags(call.tree) # {}) =>
        ~ret.ok /\ ret.err = "UnsupportedType" /\ ret.msg \in UnknownTags(call.tree)

(***************************************************************************)
(* Properties of the typed bindings.                                       *)
(***************************************************************************)
\* The decimal digit a character stands for, -1 when it is none
DecimalDigit(c) == IF \E d \in 0..9 : ToString(d) = c THEN CHOOSE d \in 0..9 : ToString(d) = c ELSE -1

\* The text after an optional sign
Unsigned(text) == IF text # "" /\ Head(text) \in {"+", "-"} THEN Tail(text) ELSE text

\* An optional sign followed by one or more decimal digits
WellFormedDecimal(text) ==
    /\ Unsigned(text) # ""
    /\ \A i \in 1..Len(Unsigned(text)) : DecimalDigit(SubSeq(Unsigned(text), i, i)) >= 0

\* The digits of a digit string
DigitsOf(text) == [i \in 1..Len(text) |-> DecimalDigit(SubSeq(text, i, i))]

\* The digits without leading zeros
Significant(digits) ==
    IF \A i \in DOMAIN digits : digits[i] = 0 THEN <<>>
    ELSE LET first == CHOOSE i \in DOMAIN digits : digits[i] # 0 /\ \A h \in 1..(i - 1) : digits[h] = 0
         IN SubSeq(digits, first, Len(digits))

\* The integer a well-formed decimal string denotes
Denoted(text) ==
    LET mag == Significant(DigitsOf(Unsigned(text)))
    IN [neg |-> Head(text) = "-" /\ mag # <<>>, mag |-> mag]

\* a <= b on digit sequences without leading zeros
DigitsLeq(a, b) ==
    \/ Len(a) < Len(b)
    \/ a = b
    \/ /\ Len(a) = Len(b)
       /\ \E i \in DOMAIN a : a[i] < b[i] /\ \A h \in 1..(i - 1) : a[h] = b[h]

\* The largest value of each target, and the magnitude of its smallest
MaxOf(name) ==
    CASE name = "u8" -> "255"
      [] name = "u16" -> "65535"
      [] name = "u32" -> "4294967295"
      [] name = "u64" -> "18446744073709551615"
      [] name = "i8" -> "127"
      [] name = "i16" -> "32767"
      [] name = "i32" -> "2147483647"
      [] name = "i64" -> "9223372036854775807"

MinOf(name) ==
    CASE name = "i8" -> "128"
      [] name = "i16" -> "32768"
      [] name = "i32" -> "2147483648"
      [] name = "i64" -> "9223372036854775808"
      [] OTHER -> "0"

\* n lies in the target's range
InRange(n, name) ==
    IF n.neg THEN DigitsLeq(n.mag, Significant(DigitsOf(MinOf(name))))
    ELSE DigitsLeq(n.mag, DigitsOf(MaxOf(name)))

\* C5: for each fixed-width integer target and every Value of a kind that
\* target accepts, from_cadence_value returns Ok(n) only when the payload is a
\* well-formed decimal string denoting n and n lies in the target's range; a
\* payload that is out of range or malformed yields a numeric parse error,
\* never a wrapped or truncated number.
C5_WidthChecked ==
    (/\ pc = "return"
     /\ call.fn = "from_cadence_value"
     /\ call.T.t = "int"
     /\ call.value.k \in {IntType(call.T.name).variant, "Int", "UInt"}) =>
        LET payload == call.value.s
            good == WellFormedDecimal(payload) /\ InRange(Denoted(payload), call.T.name) IN
        /\ ret.ok => good /\ ret.v = Denoted(payload)
        /\ ~good => ~ret.ok /\ ret.err = "Custom" /\ SubSeq(ret.msg, 1, 16) = "Failed to parse "

\* "300" is refused by the 8-bit unsigned target
C5_Witness ==
    /\ pc = "return"
    /\ call.fn = "from_cadence_value"
    /\ call.T = TInt("u8")
    /\ call.value = Text("UInt8", "300")
    /\ ~ret.ok

\* The names given to a member by rename = "..." in its serde attributes
RenameMappings(field) ==
    UNION {{field.attrs[i].metas[j].lit :
                j \in {h \in DOMAIN field.attrs[i].metas :
                            /\ field.attrs[i].metas[h].path = "rename"
                            /\ field.attrs[i].metas[h].form = "str"}} :
            i \in {h \in DOMAIN field.attrs : field.attrs[h].path = "serde"}}

\* The mapped name of a member when one is supplied, else its declared name
MappedName(field) ==
    IF RenameMappings(field) = {} THEN field.ident ELSE CHOOSE n \in RenameMappings(field) : TRUE

\* C6: for a derived record type whose members all have bindings, a member
\* with an explicit rename mapping is emitted under the mapped name by
\* to_cadence_value, and from_cadence_value applied to that Composite returns
\* a record equal to the original in every member.
C6_RecordRoundTrip ==
    (call.fn = "to_cadence_value" /\ call.T.t = "Record") =>
        LET members == call.T.decl.members IN
        /\ pc = "return" =>
            /\ ret.ok
            /\ \A i \in DOMAIN members :
                RenameMappings(members[i]) # {} =>
                    /\ i \in DOMAIN ret.v.fields
                    /\ ret.v.fields[i].name = MappedName(members[i])
        /\ pc = "back" => back = Ok(call.x)

\* C7: for a record with N named members, the derived to_cadence_value
\* returns a Struct whose id is the record's own name and whose field list
\* has exactly N entries in declaration order, the i-th entry named by the
\* i-th member's declared name, or by its mapped name whenever a rename
\* mapping is supplied for that member, and holding the encoding of that
\* member's value.
C7_EncodedRecordShape ==
    (pc = "return" /\ call.fn = "to_cadence_value" /\ call.T.t = "Record") =>
        LET members == call.T.decl.members IN
        /\ ret.ok
        /\ ret.v.k = "Struct"
        /\ ret.v.id = call.T.decl.name
        /\ Len(ret.v.fields) = Len(members)
        /\ \A i \in DOMAIN members :
            /\ ret.v.fields[i].name = MappedName(members[i])
            /\ Ok(ret.v.fields[i].value) = ToCadenceValue(members[i].ty, call.x[members[i].ident], <<>>)

\* C8: the derived from_cadence_value returns a record exactly when, for
\* every declared member, the Composite's field list contains a field with
\* the member's (possibly mapped) expected name whose value decodes with that
\* member's binding; otherwise it returns an error, and the error is the one
\* of the first member in declaration order that is missing (a field-missing
\* error) or malformed.
C8_AllOrNothing ==
    (/\ pc = "return"
     /\ call.fn = "from_cadence_value"
     /\ call.T.t = "Record"
     /\ call.value.k \in CompositeKinds) =>
        LET members == call.T.decl.members
            fields == call.value.fields
            Found(m) == \E i \in DOMAIN fields : fields[i].name = MappedName(m)
            Decodes(m) ==
                \E i \in DOMAIN fields :
                    fields[i].name = MappedName(m) /\ FromCadenceValue(m.ty, fields[i].value).ok
            failing == {j \in DOMAIN members : ~Decodes(members[j])} IN
        /\ ret.ok <=> failing = {}
        /\ ret.ok =>
            \A j \in DOMAIN members :
                \E i \in DOMAIN fields :
                    /\ fields[i].name = MappedName(members[j])
                    /\ FromCadenceValue(members[j].ty, fields[i].value) = Ok(ret.v[members[j].ident])
        /\ (~ret.ok /\ failing # {}) =>
            LET first == CHOOSE j \in failing : \A h \in failing : j <= h IN
            ~Found(members[first]) =>
                /\ ret.err = "Custom"
                /\ ret.msg = "Field " \o MappedName(members[first]) \o " not found in Cadence value"

\* C9: decoding a Dictionary into a HashMap or BTreeMap inserts the decoded
\* pairs in entry-list order: the map holds exactly one entry for every
\* decoded key, its value is the value of the last entry with that key, and
\* the map's size is the number of distinct decoded keys.
C9_LastWriteWins ==
    (/\ pc = "return"
     /\ call.fn = "from_cadence_value"
     /\ call.T.t \in {"HashMap", "BTreeMap"}
     /\ call.value.k = "Dictionary"
     /\ ret.ok) =>
        LET entries == call.value.d
            KeyOf(i) == FromCadenceValue(call.T.key, entries[i].key).v
            ValueOf(i) == FromCadenceValue(call.T.val, entries[i].value).v
            keys == {KeyOf(i) : i \in DOMAIN entries} IN
        /\ DOMAIN ret.v = keys
        /\ Cardinality(DOMAIN ret.v) = Cardinality(keys)
        /\ \A k \in keys :
            LET last == CHOOSE i \in DOMAIN entries :
                            KeyOf(i) = k /\ \A h \in DOMAIN entries : h > i => KeyOf(h) # k
            IN ret.v[k] = ValueOf(last)

\* Three entries, two of them with the key "a": the later one is kept
C9_Witness ==
    /\ pc = "return"
    /\ call.fn = "from_cadence_value"
    /\ call.T = THashMap(TString, TInt("i32"))
    /\ call.value = Dictionary(<<DictionaryEntry(Text("String", "a"), Text("Int", "1")),
                                 DictionaryEntry(Text("String", "b"), Text("Int", "1")),
                                 DictionaryEntry(Text("String", "a"), Text("Int", "-2"))>>)
    /\ ret.ok
    /\ DOMAIN ret.v = {"a", "b"}
    /\ ret.v["a"] = [neg |-> TRUE, mag |-> <<2>>]

\* Entries with pairwise distinct String keys and Int values that the
\* integer type named holds
DistinctStringIntEntries(d, name) ==
    /\ \A i \in DOMAIN d :
        /\ d[i].key.k = "String"
        /\ d[i].value.k = "Int"
        /\ WellFormedDecimal(d[i].value.s)
        /\ InRange(Denoted(d[i].value.s), name)
    /\ \A i, j \in DOMAIN d : i # j => d[i].key.s # d[j].key.s

\* The map with one entry per pair, whatever the order of the pairs
MapOfPairs(d) ==
    LET pairs == {d[i] : i \in DOMAIN d} IN
    [k \in {e.key.s : e \in pairs} |-> Denoted((CHOOSE e \in pairs : e.key.s = k).value.s)]

\* C10: for a Dictionary with pairwise distinct String keys and Int values,
\* decoding into a string-to-integer map gives the same map for every
\* permutation of the entry list, with exactly one entry per pair; and for
\* every such native map m, from_cadence_value(to_cadence_value(m)) equals m.
C10_OrderIndependentRoundTrip ==
    /\ (/\ pc = "return"
        /\ call.fn = "from_cadence_value"
        /\ call.T.t \in {"HashMap", "BTreeMap"}
        /\ call.T.key = TString
        /\ call.T.val.t = "int"
        /\ call.value.k = "Dictionary"
        /\ DistinctStringIntEntries(call.value.d, call.T.val.name)) =>
            ret = Ok(MapOfPairs(call.value.d))
    /\ (/\ call.fn = "to_cadence_value"
        /\ call.T.t \in {"HashMap", "BTreeMap"}
        /\ call.T.key = TString
        /\ call.T.val.t = "int") =>
            /\ pc = "return" => ret.ok
            /\ pc = "back" => back = Ok(call.x)

\* A HashMap of three entries visited in the order c, a, b decodes back
C10_Witness ==
    /\ pc = "back"
    /\ call.fn = "to_cadence_value"
    /\ call.T = THashMap(TString, TInt("i32"))
    /\ call.hash_order = <<"c", "a", "b">>
    /\ DOMAIN call.x = {"a", "b", "c"}
    /\ call.x["a"] = [neg |-> TRUE, mag |-> <<2>>]
    /\ ret.v.d[1].key = Text("String", "c")
    /\ back = Ok(call.x)

\* Every key is an Address and every value a String
AddressKeyed(d) == \A i \in DOMAIN d : d[i].key.k = "Address" /\ d[i].value.k = "String"

\* C11: from_cadence_value of a string-to-string map applied to a Dictionary
\* whose keys are Address values and whose values are String values succeeds
\* and yields one map entry per pair, keyed by the address's hex text;
\* re-encoding such a map and decoding it again yields an equal map.
C11_AddressKeyedMaps ==
    /\ (/\ pc = "return"
        /\ call.fn = "from_cadence_value"
        /\ call.T \in AddressMapTypes
        /\ call.value.k = "Dictionary"
        /\ AddressKeyed(call.value.d)) =>
            LET d == call.value.d IN
            /\ ret.ok
            /\ DOMAIN ret.v = {d[i].key.s : i \in DOMAIN d}
            /\ \A i \in DOMAIN d :
                (\A j \in DOMAIN d : d[j].key.s = d[i].key.s => j = i) => ret.v[d[i].key.s] = d[i].value.s
    /\ (call.fn = "to_cadence_value" /\ call.T \in AddressMapTypes) =>
            /\ pc = "return" => ret.ok
            /\ pc = "back" => back = Ok(call.x)

\* C12: decoding an Array of length n into a 2-tuple fails with an
\* arity-mismatch error reporting n whenever n is not 2, whatever the
\* elements are; for n = 2 the result is the pair of element 0 decoded with
\* the first component's binding and element 1 with the second's, or the
\* error of the first of the two that fails.
C12_TupleArity ==
    (/\ pc = "return"
     /\ call.fn = "from_cadence_value"
     /\ call.T.t = "Tuple"
     /\ call.value.k = "Array") =>
        LET a == call.value.a IN
        IF Len(a) # 2
        THEN /\ ~ret.ok
             /\ ret.err = "Custom"
             /\ ret.msg = "Expected array of length 2 for tuple, got " \o ToString(Len(a))
        ELSE LET first == FromCadenceValue(call.T.a, a[1])
                 second == FromCadenceValue(call.T.b, a[2]) IN
             ret = IF ~first.ok THEN first
                   ELSE IF ~second.ok THEN second
                   ELSE Ok(<<first.v, second.v>>)

\* Three elements, the first two of which would decode, are refused
C12_Witness ==
    /\ pc = "return"
    /\ call.fn = "from_cadence_value"
    /\ call.T = TTuple(TString, TInt("u8"))
    /\ call.value = Array(<<Text("String", "a"), Text("UInt8", "5"), Text("UInt8", "5")>>)
    /\ ~ret.ok
    /\ ret.err = "Custom"

\* C13: for each primitive native type T among String, bool, u8, u16, u32,
\* u64, i8, i16, i32, i64 and every value x of T, the minimum and maximum of
\* each integer type included, T::from_cadence_value(x.to_cadence_value())
\* returns Ok(x).
C13_PrimitiveRoundTrip ==
    (call.fn = "to_cadence_value" /\ call.T.t \in {"String", "bool", "int"}) =>
        /\ pc = "return" => ret.ok
        /\ pc = "back" => back = Ok(call.x)

\* The minimum of i64 comes back
C13_Witness ==
    /\ pc = "back"
    /\ call.fn = "to_cadence_value"
    /\ call.T = TInt("i64")
    /\ call.x = [neg |-> TRUE, mag |-> Pow2_63]
    /\ ret = Ok(Text("Int64", "-9223372036854775808"))
    /\ back = Ok(call.x)

\* The sized kind of an integer target: IntN for iN, UIntN for uN
SizedKind(name) ==
    (IF IntType(name).signed THEN "Int" ELSE "UInt") \o ToString(IntType(name).bits)

\* The acceptance table of the built-in bindings
Accepts(T, kind) ==
    CASE T.t = "String" -> kind = "String"
      [] T.t = "bool" -> kind = "Bool"
      [] T.t = "float" -> kind \in {"Fix64", "UFix64"}
      [] T.t = "int" -> kind \in {SizedKind(T.name), "Int", "UInt"}

RECURSIVE Enveloped(_, _, _)
Enveloped(tree, v, bare) ==
    /\ IsObj(tree)
    /\ Has(tree.o, "type")
    /\ tree.o["type"] = JStr(v.k)
    /\ IF v.k \in bare THEN DOMAIN tree.o = {"type"}
       ELSE /\ Has(tree.o, "value")
            /\ LET P == tree.o["value"] IN
               CASE v.k = "Optional" -> v.o = <<>> \/ Enveloped(P, v.o[1], bare)
                 [] v.k = "Array" ->
                       /\ IsArr(P)
                       /\ Len(P.a) = Len(v.a)
                       /\ \A i \in DOMAIN v.a : Enveloped(P.a[i], v.a[i], bare)
                 [] v.k = "Dictionary" ->
                       /\ IsArr(P)
                       /\ Len(P.a) = Len(v.d)
                       /\ \A i \in DOMAIN v.d :
                           /\ IsObj(P.a[i])
                           /\ DOMAIN P.a[i].o = {"key", "value"}
                           /\ Enveloped(P.a[i].o["key"], v.d[i].key, bare)
                           /\ Enveloped(P.a[i].o["value"], v.d[i].value, bare)
                 [] v.k \in CompositeKinds ->
                       /\ IsObj(P)
                       /\ DOMAIN P.o = {"id", "fields"}
                       /\ IsArr(P.o["fields"])
                       /\ Len(P.o["fields"].a) = Len(v.fields)
                       /\ \A i \in DOMAIN v.fields :
                           /\ IsObj(P.o["fields"].a[i])
                           /\ DOMAIN P.o["fields"].a[i].o = {"name", "value"}
                           /\ Enveloped(P.o["fields"].a[i].o["value"], v.fields[i].value, bare)
                 [] OTHER -> TRUE

RECURSIVE Size(_), SizeOfAll(_)
SizeOfAll(values) == IF values = <<>> THEN 0 ELSE Size(Head(values)) + SizeOfAll(Tail(values))

Size(v) ==
    1 + CASE v.k = "Optional" -> SizeOfAll(v.o)
          [] v.k = "Array" -> SizeOfAll(v.a)
          [] v.k = "Dictionary" ->
                SizeOfAll([i \in DOMAIN v.d |-> v.d[i].key]) + SizeOfAll([i \in DOMAIN v.d |-> v.d[i].value])
          [] v.k \in CompositeKinds -> SizeOfAll([i \in DOMAIN v.fields |-> v.fields[i].value])
          [] OTHER -> 0

\* The number of objects with a "type" member in a tree
RECURSIVE TypedNodes(_), TypedNodesOfAll(_)
TypedNodesOfAll(trees) ==
    IF trees = <<>> THEN 0 ELSE TypedNodes(Head(trees)) + TypedNodesOfAll(Tail(trees))

TypedNodes(tree) ==
    IF IsArr(tree) THEN TypedNodesOfAll(tree.a)
    ELSE IF IsObj(tree)
         THEN (IF Has(tree.o, "type") THEN 1 ELSE 0)
              + LET names == SortedNames(DOMAIN tree.o)
                IN TypedNodesOfAll([i \in DOMAIN names |-> tree.o[names[i]]])
         ELSE 0

\* C16: cadence_value_to_value(v) returns an unsupported-kind error exactly
\* when v contains, at any depth, a Path, Type, InclusiveRange, Capability or
\* Function node, and otherwise returns a tree; the tree holds one encoded
\* value for every Value in v, none dropped.
C16_EncodeTotalOrUnsupported ==
    (pc = "return" /\ call.fn = "cadence_value_to_value") =>
        IF Baseline(call.value)
        THEN ret.ok /\ TypedNodes(ret.v) = Size(call.value)
        ELSE ~ret.ok /\ ret.err = "UnsupportedType"

\* An Array holding a Bool and a Path is not encoded
C16_Witness ==
    /\ pc = "return"
    /\ call.fn = "cadence_value_to_value"
    /\ call.value = Array(<<CBool(TRUE), Descriptor("Path", SampleDescriptor("Path"))>>)
    /\ ~ret.ok
    /\ ret.err = "UnsupportedType"

\* C17: value_to_cadence_value applied to a well-shaped envelope whose type
\* is Path, Type, InclusiveRange, Capability or Function returns the Value of
\* that kind rather than an error.
C17_DescriptorDecode ==
    (/\ pc = "return"
     /\ call.fn = "value_to_cadence_value"
     /\ \E kind \in DescriptorKinds : call.tree = Env(kind, DescriptorPayload(kind))) =>
        ret.ok /\ ret.v.k = call.tree.o["type"].s

\* A bare scalar: null, a boolean, a number or a string
IsScalar(tree) == tree.j \in {"null", "bool", "num", "str"}

\* The Value a bare null, boolean or string is inferred to be
InferredScalar(tree) ==
    CASE tree.j = "null" -> Optional(<<>>)
      [] tree.j = "bool" -> CBool(tree.b)
      [] tree.j = "str" -> Text("String", tree.s)

\* The Value is of the kind named and holds the decimal text of n
HoldsDecimal(result, kind, n) ==
    /\ result.ok
    /\ result.v.k = kind
    /\ WellFormedDecimal(result.v.s)
    /\ Denoted(result.v.s) = n

\* C18: value_to_cadence_value maps a bare null to Optional(None), a bare
\* boolean to Bool, a bare string to String, every integral JSON number
\* (negative, zero, and positive up to the unsigned 64-bit maximum, those
\* above the signed 64-bit maximum included) to Int holding the number's
\* decimal text, and every non-integral number to Fix64.
C18_ScalarInference ==
    (pc = "return" /\ call.fn = "value_to_cadence_value" /\ IsScalar(call.tree)) =>
        IF call.tree.j # "num" THEN ret = Ok(InferredScalar(call.tree))
        ELSE IF "f" \in DOMAIN call.tree.n THEN ret = Ok(Text("Fix64", call.tree.n.f))
        ELSE HoldsDecimal(ret, "Int", call.tree.n)

\* C18 as amended: the same, but an integral number is mapped to Int only
\* when it lies within the signed 64-bit range; an integral number above the
\* signed 64-bit maximum, up to the unsigned 64-bit maximum, is mapped to
\* UInt holding its decimal text.
C18_ScalarInferenceBySign ==
    (pc = "return" /\ call.fn = "value_to_cadence_value" /\ IsScalar(call.tree)) =>
        IF call.tree.j # "num" THEN ret = Ok(InferredScalar(call.tree))
        ELSE IF "f" \in DOMAIN call.tree.n THEN ret = Ok(Text("Fix64", call.tree.n.f))
        ELSE IF InRange(call.tree.n, "i64") THEN HoldsDecimal(ret, "Int", call.tree.n)
        ELSE HoldsDecimal(ret, "UInt", call.tree.n)

\* 2^63, the first number above the signed 64-bit maximum, becomes a UInt
C18_Witness ==
    /\ pc = "return"
    /\ call.fn = "value_to_cadence_value"
    /\ call.tree = JNum([neg |-> FALSE, mag |-> Pow2_63])
    /\ ret = Ok(Text("UInt", "9223372036854775808"))

\* An object of a "type" string member, a "value" member and nothing else
ExactEnvelope(tree) ==
    /\ IsObj(tree)
    /\ DOMAIN tree.o = {"type", "value"}
    /\ IsStr(tree.o["type"])

\* C19: every JSON object that is not exactly an envelope of a "type" string
\* member plus a "value" member (no "type", a non-string "type", no "value",
\* or additional members) is decoded by value_to_cadence_value as a
\* Dictionary with exactly one entry per object member, in the tree's member
\* order, whose key is String(member name) and whose value is the decoding
\* of the member value; a failure in any member value fails the whole decode.
C19_ImplicitDictionary ==
    (/\ pc = "return"
     /\ call.fn = "value_to_cadence_value"
     /\ IsObj(call.tree)
     /\ ~ExactEnvelope(call.tree)) =>
        LET names == SortedNames(DOMAIN call.tree.o)
            decoded == [i \in DOMAIN names |-> value_to_cadence_value(call.tree.o[names[i]])] IN
        IF \A i \in DOMAIN names : decoded[i].ok
        THEN ret = Ok(Dictionary([i \in DOMAIN names |->
                                    DictionaryEntry(Text("String", names[i]), decoded[i].v)]))
        ELSE ~ret.ok

\* The member decodes a container binding makes, in the order it makes them:
\* the elements of a Vec, element 0 then element 1 of a tuple, and for a map
\* the key and then the value of each entry
MemberDecodes(T, value) ==
    CASE T.t = "Vec" -> [i \in DOMAIN value.a |-> FromCadenceValue(T.e, value.a[i])]
      [] T.t = "Tuple" -> <<FromCadenceValue(T.a, value.a[1]), FromCadenceValue(T.b, value.a[2])>>
      [] T.t \in {"HashMap", "BTreeMap"} ->
            [i \in 1..(2 * Len(value.d)) |->
                IF i % 2 = 1 THEN FromCadenceValue(T.key, value.d[(i + 1) \div 2].key)
                ELSE FromCadenceValue(T.val, value.d[i \div 2].value)]

\* C20: when the sequence, map or 2-tuple binding decodes a Value in which
\* some member fails to decode, the result is an error and no partial
\* container, and the error is that of the first failing member in list
\* order (in a dictionary entry the key before the value, in a tuple element
\* 0 before element 1), whatever the members after it are; when no member
\* fails the decode succeeds.
C20_FailFast ==
    (/\ pc = "return"
     /\ call.fn = "from_cadence_value"
     /\ \/ call.T.t = "Vec" /\ call.value.k = "Array"
        \/ call.T.t = "Tuple" /\ call.value.k = "Array" /\ Len(call.value.a) = 2
        \/ call.T.t \in {"HashMap", "BTreeMap"} /\ call.value.k = "Dictionary") =>
        LET members == MemberDecodes(call.T, call.value)
            failing == {i \in DOMAIN members : ~members[i].ok} IN
        IF failing = {} THEN ret.ok
        ELSE ret = members[CHOOSE i \in failing : \A h \in failing : i <= h]

\* A Vec<u8> decode stops at "300" and never reports the String after it
C20_Witness ==
    /\ pc = "return"
    /\ call.fn = "from_cadence_value"
    /\ call.T = TVec(TInt("u8"))
    /\ call.value = Array(<<Text("UInt8", "5"), Text("UInt8", "300"), Text("String", "a")>>)
    /\ ~ret.ok
    /\ ret.err = "Custom"

(***************************************************************************)
(* Properties of the whole library, the fallback bridge and the bindings.  *)
(***************************************************************************)
\* What a call that panicked leaves instead of a result
Aborted(result) == "err" \in DOMAIN result /\ result.err = "panic"

\* C21: no operation aborts: for every JSON tree and every Value,
\* value_to_cadence_value, cadence_value_to_value, the fallback
\* from_cadence_value with its passes and the built-in bindings each return a
\* result or a typed error; no unreachable!() arm is reached and no array is
\* indexed out of bounds.
C21_NoAbort ==
    /\ pc # "call" => ~Aborted(ret)
    /\ pc = "back" => ~Aborted(back)

\* The last variant of the integer arm went through the inner match of the
\* encoder, inside an Optional
C21_Witness ==
    /\ pc = "return"
    /\ call.fn = "cadence_value_to_value"
    /\ call.value = Optional(<<Text("Word256", "5")>>)
    /\ ret = Ok(Env("Optional", Env("Word256", JStr("5"))))

\* The tree holds the members of v where v holds them: element i of an
\* Array is payload element i, entry i of a Dictionary is payload entry i,
\* field i of a Composite is payload field i under the same name, at every
\* depth; a Value without members is its own encoding
RECURSIVE EmittedInPlace(_, _)
EmittedInPlace(v, tree) ==
    CASE v.k = "Array" ->
            LET P == tree.o["value"] IN
            /\ IsArr(P)
            /\ Len(P.a) = Len(v.a)
            /\ \A i \in DOMAIN v.a : EmittedInPlace(v.a[i], P.a[i])
      [] v.k = "Dictionary" ->
            LET P == tree.o["value"] IN
            /\ IsArr(P)
            /\ Len(P.a) = Len(v.d)
            /\ \A i \in DOMAIN v.d :
                /\ EmittedInPlace(v.d[i].key, P.a[i].o["key"])
                /\ EmittedInPlace(v.d[i].value, P.a[i].o["value"])
      [] v.k \in CompositeKinds ->
            LET F == tree.o["value"].o["fields"] IN
            /\ IsArr(F)
            /\ Len(F.a) = Len(v.fields)
            /\ \A i \in DOMAIN v.fields :
                /\ F.a[i].o["name"] = JStr(v.fields[i].name)
                /\ EmittedInPlace(v.fields[i].value, F.a[i].o["value"])
      [] v.k = "Optional" /\ v.o # <<>> -> EmittedInPlace(v.o[1], tree.o["value"])
      [] OTHER -> cadence_value_to_value(v) = Ok(tree)

\* The Value holds the members of the tree where the tree's arrays hold
\* them.  The decoder reads the array of an envelope under "value" of its
\* "value" member, and the members of an object without an envelope in
\* name order.
RECURSIVE YieldedInPlace(_, _)
YieldedInPlace(tree, v) ==
    LET enveloped == IsObj(tree) /\ Has(tree.o, "type") /\ IsStr(tree.o["type"]) /\ Has(tree.o, "value") IN
    CASE v.k = "Array" ->
            LET arr == IF enveloped THEN tree.o["value"].o["value"].a ELSE tree.a IN
            /\ Len(v.a) = Len(arr)
            /\ \A i \in DOMAIN arr : YieldedInPlace(arr[i], v.a[i])
      [] v.k = "Dictionary" /\ enveloped ->
            LET arr == tree.o["value"].o["value"].a IN
            /\ Len(v.d) = Len(arr)
            /\ \A i \in DOMAIN arr :
                /\ YieldedInPlace(arr[i].o["key"], v.d[i].key)
                /\ YieldedInPlace(arr[i].o["value"], v.d[i].value)
      [] v.k = "Dictionary" /\ ~enveloped ->
            LET names == SortedNames(DOMAIN tree.o) IN
            /\ Len(v.d) = Len(names)
            /\ \A i \in DOMAIN names :
                /\ v.d[i].key = Text("String", names[i])
                /\ YieldedInPlace(tree.o[names[i]], v.d[i].value)
      [] v.k \in CompositeKinds ->
            LET arr == tree.o["value"].o["value"].o["fields"].a IN
            /\ Len(v.fields) = Len(arr)
            /\ \A i \in DOMAIN arr :
                /\ JStr(v.fields[i].name) = arr[i].o["name"]
                /\ YieldedInPlace(arr[i].o["value"], v.fields[i].value)
      [] v.k = "Optional" /\ v.o # <<>> -> YieldedInPlace(tree.o["value"], v.o[1])
      [] OTHER -> value_to_cadence_value(tree) = Ok(v)

\* C22: order and multiplicity are preserved in both directions of the
\* transcoder: cadence_value_to_value emits array elements, dictionary
\* entries and composite fields at the same positions and in the same number
\* as in the Value, and value_to_cadence_value yields them in the order of
\* the tree's arrays; entries that share a key are all kept, in place, and
\* fields are never sorted.
C22_OrderAndMultiplicity ==
    /\ (pc # "call" /\ call.fn = "cadence_value_to_value" /\ ret.ok) =>
            EmittedInPlace(call.value, ret.v)
    /\ (pc # "call" /\ call.fn = "value_to_cadence_value" /\ ret.ok) =>
            YieldedInPlace(call.tree, ret.v)

\* Four entries, three of them under the key "a" and two of those equal,
\* were decoded, and all four are there in the order of the tree
C22_Witness ==
    /\ pc = "return"
    /\ call.fn = "value_to_cadence_value"
    /\ IsObj(call.tree)
    /\ Has(call.tree.o, "type")
    /\ call.tree.o["type"] = JStr("Dictionary")
    /\ ret.ok
    /\ ret.v.k = "Dictionary"
    /\ Len(ret.v.d) = 4
    /\ ret.v.d[1] = ret.v.d[3]
    /\ ret.v.d[4].key = ret.v.d[1].key
    /\ ret.v.d[2].key # ret.v.d[1].key

\* Every integer-kind Value within v, v included, holds an optionally signed
\* string of decimal digits
RECURSIVE DecimalPayloads(_)
DecimalPayloads(v) ==
    CASE v.k \in IntKinds -> WellFormedDecimal(v.s)
      [] v.k = "Optional" -> v.o = <<>> \/ DecimalPayloads(v.o[1])
      [] v.k = "Array" -> \A i \in DOMAIN v.a : DecimalPayloads(v.a[i])
      [] v.k = "Dictionary" ->
            \A i \in DOMAIN v.d : DecimalPayloads(v.d[i].key) /\ DecimalPayloads(v.d[i].value)
      [] v.k \in CompositeKinds -> \A i \in DOMAIN v.fields : DecimalPayloads(v.fields[i].value)
      [] OTHER -> TRUE

\* C23: numeric payloads are decimal strings at the Value layer: every
\* integer-kind Value returned by value_to_cadence_value or produced by an
\* integer binding's to_cadence_value holds an optionally signed string of
\* decimal digits, and a tree whose integer payload is not such a string is
\* not accepted as an integer-kind Value.
C23_DecimalPayloads ==
    /\ (pc # "call" /\ call.fn = "value_to_cadence_value" /\ ret.ok) => DecimalPayloads(ret.v)
    /\ (pc # "call" /\ call.fn = "to_cadence_value" /\ call.T.t = "int") =>
            ret.ok /\ ret.v.k \in IntKinds /\ WellFormedDecimal(ret.v.s)

\* The native number a payload parses as under a numeric kind: an integer
\* of 64 bits for the signed and the unsigned kinds, a finite float for the
\* fixed-point kinds; Err for a payload that parses as none
NativeNumber(K, s) ==
    LET signed == ParseInt(s, TRUE, 64)
        unsigned == ParseInt(s, FALSE, 64)
        float == ParseFloat(s) IN
    IF K \in {"Int", "Int8", "Int16", "Int32", "Int64", "Int128", "Int256"}
    THEN IF signed.ok THEN Ok(signed.v) ELSE Err("None", "")
    ELSE IF K \in IntKinds
    THEN IF unsigned.ok THEN Ok(unsigned.v) ELSE Err("None", "")
    ELSE IF float.ok /\ "mag" \in DOMAIN float.v THEN Ok([f |-> FloatToString(float.v)])
    ELSE Err("None", "")

\* The tree with the payload string of every numeric node replaced by the
\* number it parses as, through arrays and the members of objects, and
\* nothing else changed
RECURSIVE Widened(_)
Widened(tree) ==
    IF IsObj(tree)
    THEN IF /\ DOMAIN tree.o = {"type", "value"}
            /\ IsStr(tree.o["type"])
            /\ tree.o["type"].s \in IntKinds \cup FixKinds
            /\ IsStr(tree.o["value"])
         THEN IF NativeNumber(tree.o["type"].s, tree.o["value"].s).ok
              THEN JObj(Insert(tree.o, "value", JNum(NativeNumber(tree.o["type"].s, tree.o["value"].s).v)))
              ELSE tree
         ELSE JObj([name \in DOMAIN tree.o |-> Widened(tree.o[name])])
    ELSE IF IsArr(tree) THEN JArr([i \in DOMAIN tree.a |-> Widened(tree.a[i])])
    ELSE tree

\* C24: numeric widening: in the encoding of a Value, process_numeric_values
\* replaces the payload string by the native number in every node
\* {"type": K, "value": s} with K an integer or fixed-point kind and s
\* parsing as a native number, at every depth through arrays, dictionary
\* keys and values, composite fields and Optional payloads, and leaves every
\* other part of the tree, type tags and unparsable payloads included, as it
\* is.
C24_NumericWidening ==
    (/\ pc # "call"
     /\ call.fn = "process_numeric_values"
     /\ \E v \in Values \cup WideValues : cadence_value_to_value(v) = Ok(call.tree)) =>
        ret = Ok(Widened(call.tree))

\* No node {"type": T, "value": V} with a primitive V is left in the tree,
\* at the top or inside arrays and the members of objects
RECURSIVE NoPrimitiveEnvelope(_)
NoPrimitiveEnvelope(tree) ==
    IF IsObj(tree)
    THEN /\ ~(/\ DOMAIN tree.o = {"type", "value"}
              /\ IsStr(tree.o["type"])
              /\ tree.o["value"].j \in {"str", "num", "bool", "null"})
         /\ \A name \in DOMAIN tree.o : NoPrimitiveEnvelope(tree.o[name])
    ELSE IF IsArr(tree) THEN \A i \in DOMAIN tree.a : NoPrimitiveEnvelope(tree.a[i])
    ELSE TRUE

\* C25: primitive unwrapping: in the tree that from_cadence_value hands to
\* serde_json::from_value, every node {"type": T, "value": V} whose V is a
\* string, number, boolean or null has been collapsed to bare V, at the top
\* level and at any depth inside arrays, dictionary values and composite
\* fields, so no such envelope remains.
C25_PrimitiveUnwrapping ==
    (/\ pc # "call"
     /\ call.fn = "conversion::from_cadence_value"
     /\ Handed(call.T, call.value).ok) =>
        NoPrimitiveEnvelope(Handed(call.T, call.value).v)

\* The text of a primitive payload
PrimitiveText(P) ==
    CASE P.j = "str" -> P.s
      [] P.j = "num" -> JsonText(P)
      [] P.j = "bool" -> IF P.b THEN "true" ELSE "false"
      [] P.j = "null" -> "null"

\* The member name of a key whose encoding is tree: the key's string value
\* for a String, else its payload when the payload is primitive (stringOnly:
\* when the payload is a string), else the full JSON text of the encoding
MemberName(key, tree, stringOnly) ==
    IF key.k = "String" THEN key.s
    ELSE IF /\ Has(tree.o, "value")
            /\ tree.o["value"].j \in (IF stringOnly THEN {"str"} ELSE {"str", "num", "bool", "null"})
         THEN PrimitiveText(tree.o["value"])
         ELSE JsonText(tree)

\* A Dictionary handed to a map-shaped target, every key and value of which
\* has an encoding, became an object with one member for every name, holding
\* the widened and unwrapped value of the last entry of that name
NamedMembers(stringOnly) ==
    (/\ pc # "call"
     /\ call.fn = "conversion::from_cadence_value"
     /\ call.T.t \in {"HashMap", "BTreeMap"}
     /\ call.value.k = "Dictionary"
     /\ \A i \in DOMAIN call.value.d :
            cadence_value_to_value(call.value.d[i].key).ok /\ cadence_value_to_value(call.value.d[i].value).ok) =>
        LET entries == call.value.d
            NameOf(i) == MemberName(entries[i].key, cadence_value_to_value(entries[i].key).v, stringOnly)
            handed == Handed(call.T, call.value) IN
        /\ handed.ok
        /\ IsObj(handed.v)
        /\ DOMAIN handed.v.o = {NameOf(i) : i \in DOMAIN entries}
        /\ \A i \in DOMAIN entries :
            (\A h \in DOMAIN entries : h > i => NameOf(h) # NameOf(i)) =>
                handed.v.o[NameOf(i)] =
                    extract_primitive_value(process_numeric_values(cadence_value_to_value(entries[i].value).v))
        /\ ret = from_value(call.T, handed.v)

\* C26: key naming for map-shaped fallback targets: each entry of the
\* Dictionary becomes an object member whose name is the key's string value
\* if the key kind is String, otherwise the key's own primitive payload if
\* the encoded key has a primitive payload (string, number, boolean or null),
\* otherwise the key's full encoded JSON text; entries are inserted in list
\* order, so a later entry with the same name replaces an earlier one.
C26_KeyNaming == NamedMembers(FALSE)

\* C26 as the code has it: the key's own payload is the name only when the
\* encoded key has a string payload (Address, the integer kinds, the
\* fixed-point kinds); a key with a boolean or null payload, like a key with
\* a payload that is a tree or with none, is named by its full encoded JSON
\* text.
C26_KeyNamingByStringPayload == NamedMembers(TRUE)

\* A Bool key was named by the text of its envelope and an Int key by its
\* payload, and the later of two entries named "5" replaced the earlier
C26_Witness ==
    /\ pc = "return"
    /\ call.fn = "conversion::from_cadence_value"
    /\ call.T = THashMap(TString, TInt("i32"))
    /\ call.value = Dictionary(<<DictionaryEntry(Text("Int", "5"), Text("Int8", "1")),
                                 DictionaryEntry(CBool(TRUE), Text("Int", "1"))>>)
    /\ Handed(call.T, call.value) =
        Ok(JObj(Insert(Insert(EmptyMap, "5", JStr("1")), "{\"type\":\"Bool\",\"value\":true}", JNum(One))))

\* C27: the fallback bridge never wraps integers: for every integer target
\* (i8..i64, u8..u64) and every integer-kind Value,
\* conversion::from_cadence_value returns Ok(n) only if the payload denotes
\* exactly n and n is within the target's range; a payload outside the
\* target's range, outside the 64-bit range of the intermediate parse, or
\* negative for an unsigned target yields an error, never another number.
C27_BridgeNeverWraps ==
    (/\ pc # "call"
     /\ call.fn = "conversion::from_cadence_value"
     /\ call.T.t = "int"
     /\ call.value.k \in IntKinds) =>
        LET payload == call.value.s
            good == WellFormedDecimal(payload) /\ InRange(Denoted(payload), call.T.name) IN
        /\ ret.ok => good /\ ret.v = Denoted(payload)
        /\ ~good => ~ret.ok /\ ret.err = "SerdeJson"

\* 300 went through the 64-bit parse of the Int16 arm and was refused by
\* the 8-bit unsigned target
C27_Witness ==
    /\ pc = "return"
    /\ call.fn = "conversion::from_cadence_value"
    /\ call.T = TInt("u8")
    /\ call.value = Text("Int16", "300")
    /\ ret = Err("SerdeJson", "invalid value: integer 300, expected u8")

\* For each declared member that has one, in declaration order, the first
\* field of the list whose name is the name the member is looked up under
RECURSIVE FirstMatches(_, _, _)
FirstMatches(members, fields, j) ==
    IF j > Len(members) THEN <<>>
    ELSE LET name == field_name_for_cadence(members[j])
             at == {i \in DOMAIN fields : fields[i].name = name} IN
         (IF at = {} THEN <<>> ELSE <<fields[CHOOSE i \in at : \A h \in at : i <= h]>>)
         \o FirstMatches(members, fields, j + 1)

\* C28: the result of the derived record decode depends only on, for each
\* declared member, the first field of the Composite's field list whose name
\* equals the member's expected name: it is the result for the Struct that
\* holds those first fields alone, in declaration order, under another id.
\* So it is unchanged by the Composite's id, by fields whose names match no
\* member, by later fields that repeat a matched name, and by any reordering
\* of fields with distinct names.
C28_FirstMatchOnly ==
    (/\ pc # "call"
     /\ call.fn = "from_cadence_value"
     /\ call.T.t = "Record"
     /\ call.value.k = "Struct") =>
        ret = FromCadenceValue(call.T,
                               Composite("Struct", "",
                                         FirstMatches(call.T.decl.members, call.value.fields, 1)))

\* A Struct under another id than the record's name, its fields out of
\* declaration order and the field age repeated with a payload that does not
\* decode, gave the record of the first fields
C28_Witness ==
    /\ pc = "return"
    /\ call.fn = "from_cadence_value"
    /\ call.T.t = "Record"
    /\ call.value = Composite("Struct", "Other",
                              <<CompositeField("age", Text("UInt8", "5")),
                                CompositeField("name", Text("String", "a")),
                                CompositeField("age", Text("UInt8", "300"))>>)
    /\ ret = Ok([name |-> "a", age |-> Five])

\* C29: the derived record decode accepts the Struct kind only: applied to
\* a Resource, Event, Contract or Enum Composite, even one whose fields match
\* every declared member, or to any Value that is no Composite, it returns
\* TypeMismatch, whatever the fields hold.
C29_StructOnly ==
    (/\ pc # "call"
     /\ call.fn = "from_cadence_value"
     /\ call.T.t = "Record"
     /\ call.value.k # "Struct") =>
        ret = TypeMismatch("Struct", call.value)

\* An Event with a field for every member, each of which decodes, was
\* refused
C29_Witness ==
    /\ pc = "return"
    /\ call.fn = "from_cadence_value"
    /\ call.T.t = "Record"
    /\ call.value.k = "Event"
    /\ FromCadenceValue(call.T, Composite("Struct", call.value.id, call.value.fields)).ok
    /\ ret.err = "TypeMismatch"
    /\ ret.expected = "Struct"

\* No two entries hold the same key Value
DistinctKeyValues(d) == \A i, j \in DOMAIN d : i # j => d[i].key # d[j].key

\* No two entries hold keys that decode to the same key of the map
DistinctMapKeys(d) ==
    \A i, j \in DOMAIN d :
        i # j => FromCadenceValue(call.T.key, d[i].key) # FromCadenceValue(call.T.key, d[j].key)

\* The orders of n things
Orderings(n) == {p \in [1..n -> 1..n] : \A i, j \in 1..n : i # j => p[i] # p[j]}

\* encode(decode(d)) of an ordered map is canonical.  The keys of d are
\* distinct as keys of the map (byMapKey) or as key Values.
Canonical(byMapKey) ==
    (/\ pc = "back"
     /\ call.fn = "from_cadence_value"
     /\ call.T.t = "BTreeMap"
     /\ call.value.k = "Dictionary") =>
        LET T == call.T
            d == call.value.d
            Key(e) == FromCadenceValue(T.key, e.key)
            Val(e) == FromCadenceValue(T.val, e.value) IN
        /\ back.ok
        /\ back.v.k = "Dictionary"
        /\ Len(back.v.d) = Cardinality(DOMAIN ret.v)
        /\ \A i \in DOMAIN back.v.d :
            /\ Key(back.v.d[i]).ok
            /\ Key(back.v.d[i]).v \in DOMAIN ret.v
            /\ Val(back.v.d[i]) = Ok(ret.v[Key(back.v.d[i]).v])
        /\ \A i, j \in DOMAIN back.v.d :
            i < j => KeyLess(T.key, Key(back.v.d[i]).v, Key(back.v.d[j]).v)
        /\ (IF byMapKey THEN DistinctMapKeys(d) ELSE DistinctKeyValues(d)) =>
            \A p \in Orderings(Len(d)) :
                LET again == FromCadenceValue(T, Dictionary([i \in DOMAIN d |-> d[p[i]]])) IN
                again.ok /\ ToCadenceValue(T, again.v, <<>>) = back
        /\ FromCadenceValue(T, back.v) = ret
        /\ ToCadenceValue(T, FromCadenceValue(T, back.v).v, <<>>) = back

\* C30: ordered-map encoding is canonical: BTreeMap::to_cadence_value emits
\* exactly one Dictionary entry per map entry in ascending key order, so for
\* every Dictionary d that decodes into a BTreeMap, encode(decode(d)) has
\* strictly ascending, duplicate-free keys, is the same for every permutation
\* of d's entries with distinct keys, and encoding then decoding it again
\* returns the same map.
C30_CanonicalEncoding == Canonical(FALSE)

\* C30 with the keys compared as keys of the map: encode(decode(d)) is the
\* same for every permutation of d's entries when no two of their keys
\* decode to the same map key (the UInt8 payloads "5", "+5" and "05" are
\* three key Values and one key of a BTreeMap<u8, _>).
C30_CanonicalEncodingByMapKey == Canonical(TRUE)

\* Three entries with the keys "c", "a", "b" were decoded and encoded, and
\* the entries came out under "a", "b", "c"
C30_Witness ==
    /\ pc = "back"
    /\ call.fn = "from_cadence_value"
    /\ call.T = TBTreeMap(TString, TInt("i32"))
    /\ call.value = Dictionary(<<DictionaryEntry(Text("String", "c"), Text("Int", "1")),
                                 DictionaryEntry(Text("String", "a"), Text("Int", "-2")),
                                 DictionaryEntry(Text("String", "b"), Text("Int", "1"))>>)
    /\ back = Ok(Dictionary(<<DictionaryEntry(Text("String", "a"), Text("Int32", "-2")),
                              DictionaryEntry(Text("String", "b"), Text("Int32", "1")),
                              DictionaryEntry(Text("String", "c"), Text("Int32", "1"))>>))

====
